---------------------------- MODULE Spec2Model ----------------------------
(***************************************************************************)
(* Model of the Dividend Dashboard ETL scripts (scripts/update_data.py,    *)
(* scripts/backfill_history.py, scripts/backfill_single_stock.py):         *)
(* bounded retry, the daily-metrics / quarterly-financials upserts on one  *)
(* psycopg2 connection, and the per-symbol orchestration loops.            *)
(*                                                                         *)
(* Numbers are fixed-point integers in hundredths (3.00 % is 300).         *)
(* Every Python value is a tagged record, so that None, NaN, '' and a      *)
(* number can be told apart without comparing values of different kinds.   *)
(***************************************************************************)
EXTENDS Integers, Sequences, FiniteSets, TLC

VARIABLES
    daily_metrics,          \* committed rows of table daily_metrics
    quarterly_financials,   \* committed rows of table quarterly_financials
    stock_meta,             \* rows of table stock_meta (the watchlist)
    conn,                   \* the psycopg2 connection: transaction status and its view of the tables
    script,                 \* which script's main() is running
    args,                   \* its command line: args.symbol
    stocks,                 \* the symbols main() selected, in the order the SELECT returned them
    pos,                    \* how many of them the for-loop has finished
    pc,                     \* position of main(): "start" | "loop" | "done" | "exit"
    success_count,          \* update_data.main
    fail_count,             \* update_data.main
    total_saved,            \* backfill_history.main
    obs,                    \* per symbol: what this run fetched, tried to write and returned
    call                    \* the last direct call of a function under test: arguments and outcome

vars == <<daily_metrics, quarterly_financials, stock_meta, conn, script, args, stocks, pos, pc,
          success_count, fail_count, total_saved, obs, call>>

-----------------------------------------------------------------------------
(* Python values *)

None == [t |-> "None"]
NaN == [t |-> "nan"]
Num(v) == [t |-> "num", v |-> v]
\* a str, as the sequence of its characters
Str(s) == [t |-> "str", s |-> s]

IsNum(x) == x.t = "num"

\* a pandas DataFrame: its rows in order
DataFrame(rows) == [t |-> "df", rows |-> rows]

\* a calendar date, as the server stores a DATE
Date(y, m, d) == [y |-> y, m |-> m, d |-> d]

\* pd.notna: neither None nor NaN
notna(x) == x.t # "None" /\ x.t # "nan"

-----------------------------------------------------------------------------
(* Bounds and program constants *)

\* largest max_retries argument tried on fetch_with_retry
MaxRetriesArg == 3

\* update_data.py:39, backfill_history.py:23 (attempts per request)
MAX_RETRIES == 3
\* update_data.py:40 (seconds, in hundredths)
RETRY_DELAY == 300
\* update_data.py:37 (seconds, in hundredths)
REQUEST_DELAY == 50

-----------------------------------------------------------------------------
(* RetryableFetcher: fetch_with_retry *)

\* What one invocation of the wrapped call does: return a value or raise.
Ok(v) == [ok |-> TRUE, v |-> v, kind |-> "-"]
Err(kind) == [ok |-> FALSE, v |-> None, kind |-> kind]

\* The exception object raised by invocation number `at`.
Exc(kind, at) == [t |-> "exc", kind |-> kind, at |-> at]

\* State of the loop before the first attempt (last_exception = None).
RetryStart == [returned |-> FALSE, value |-> None, raised |-> None,
               last_exception |-> None, calls |-> 0, log |-> <<>>]

\* `raise last_exception` after the loop; raising None is a TypeError.
RaiseLast(st) ==
    [st EXCEPT !.raised = IF st.last_exception = None
                          THEN Exc("TypeError", 0)
                          ELSE st.last_exception]

\* `if attempt < max_retries - 1: time.sleep(delay)` in the except branch
SleepIfAttemptsRemainMutant(st, attempt, max_retries, delay) ==
    [st EXCEPT !.log = Append(@, [ev |-> "sleep", d |-> delay])]

SleepIfAttemptsRemain(st, attempt, max_retries, delay) ==
    IF attempt < max_retries - 1
    THEN [st EXCEPT !.log = Append(@, [ev |-> "sleep", d |-> delay])]
    ELSE st

\* `except Exception as e: last_exception = e`
RememberExceptionMutant(st, e) ==
    [st EXCEPT !.last_exception = IF @ = None THEN e ELSE @]

RememberException(st, e) == [st EXCEPT !.last_exception = e]

\* Whether the for-loop enters another iteration: `for attempt in range(max_retries)`
MoreAttemptsMutant(attempt, max_retries) == attempt <= max_retries

MoreAttempts(attempt, max_retries) == attempt < max_retries

\* The for-loop, from iteration `attempt` (0-based) on. resp[i] is what the
\* i-th invocation of func does.
RECURSIVE RetryLoop(_, _, _, _, _)
RetryLoop(resp, attempt, max_retries, delay, st) ==
    IF ~MoreAttempts(attempt, max_retries)
    THEN RaiseLast(st)
    ELSE LET r == resp[attempt + 1]
             called == [st EXCEPT !.calls = @ + 1,
                                  !.log = Append(@, [ev |-> "call", d |-> 0])]
         IN IF r.ok
            THEN [called EXCEPT !.returned = TRUE, !.value = r.v]
            ELSE RetryLoop(resp, attempt + 1, max_retries, delay,
                     SleepIfAttemptsRemain(
                         RememberException(called, Exc(r.kind, attempt + 1)),
                         attempt, max_retries, delay))

fetch_with_retry(resp, max_retries, delay) ==
    RetryLoop(resp, 0, max_retries, delay, RetryStart)

-----------------------------------------------------------------------------
(* MetricsUpsertStore: table daily_metrics on a psycopg2 connection *)

\* Non-key columns of daily_metrics, in the order of the INSERT column list.
DailyColumns == <<"close_price", "market_cap", "pe_ttm", "pb_ttm",
                  "dividend_yield_ttm", "pe_percentile", "pb_percentile",
                  "yield_percentile">>

\* UNIQUE(symbol, trade_date)
DailyKey(r) == <<r.symbol, r.trade_date>>

\* ON CONFLICT (symbol, trade_date) DO UPDATE SET <col> = EXCLUDED.<col>, ...
OnConflictUpdateDailyMutant(old, excluded) ==
    [old EXCEPT !.close_price = excluded.close_price,
                !.market_cap = excluded.market_cap,
                !.pe_ttm = excluded.pe_ttm,
                !.pb_ttm = excluded.pb_ttm,
                !.dividend_yield_ttm = excluded.dividend_yield_ttm,
                !.pe_percentile = IF excluded.pe_percentile = None
                                  THEN @ ELSE excluded.pe_percentile,
                !.pb_percentile = excluded.pb_percentile,
                !.yield_percentile = IF excluded.yield_percentile = None
                                     THEN @ ELSE excluded.yield_percentile]

\* ... SET pb_percentile = pe_percentile: an unqualified column is the one of
\* the row already stored
OnConflictUpdateDailyStale(old, excluded) ==
    [old EXCEPT !.close_price = excluded.close_price,
                !.market_cap = excluded.market_cap,
                !.pe_ttm = excluded.pe_ttm,
                !.pb_ttm = excluded.pb_ttm,
                !.dividend_yield_ttm = excluded.dividend_yield_ttm,
                !.pe_percentile = excluded.pe_percentile,
                !.pb_percentile = old.pe_percentile,
                !.yield_percentile = excluded.yield_percentile]

OnConflictUpdateDaily(old, excluded) ==
    [old EXCEPT !.close_price = excluded.close_price,
                !.market_cap = excluded.market_cap,
                !.pe_ttm = excluded.pe_ttm,
                !.pb_ttm = excluded.pb_ttm,
                !.dividend_yield_ttm = excluded.dividend_yield_ttm,
                !.pe_percentile = excluded.pe_percentile,
                !.pb_percentile = excluded.pb_percentile,
                !.yield_percentile = excluded.yield_percentile]

\* INSERT INTO daily_metrics (...) VALUES (...) ON CONFLICT ... DO UPDATE
UpsertDailyMutant(table, row) == table \cup {row}

UpsertDaily(table, row) ==
    IF \E r \in table : DailyKey(r) = DailyKey(row)
    THEN {IF DailyKey(r) = DailyKey(row) THEN OnConflictUpdateDaily(r, row) ELSE r :
             r \in table}
    ELSE table \cup {row}

\* A value the server accepts for a DECIMAL column: NULL, a number or NaN.
IsDecimal(x) == x.t \in {"None", "num", "nan"}

DailyRowAccepted(row) ==
    \A i \in 1..Len(DailyColumns) : IsDecimal(row[DailyColumns[i]])

\* A fresh connection: no transaction, seeing the committed tables.
NewConnection(dm, qf) == [status |-> "idle", dm |-> dm, qf |-> qf]

\* cur.execute(upsert_sql, row) on table daily_metrics. A statement in a failed
\* transaction raises InFailedSqlTransaction; a statement the server rejects
\* (`fault`, or a value of the wrong type) raises and leaves the transaction
\* failed until a rollback; otherwise the transaction's view gets the row.
ExecuteUpsertDaily(c, row, fault) ==
    IF c.status = "inerror"
    THEN [conn |-> c, raised |-> TRUE]
    ELSE IF fault \/ ~DailyRowAccepted(row)
    THEN [conn |-> [c EXCEPT !.status = "inerror"], raised |-> TRUE]
    ELSE [conn |-> [c EXCEPT !.status = "intrans", !.dm = UpsertDaily(@, row)],
          raised |-> FALSE]

\* conn.commit(): makes the transaction's view the committed tables; in a failed
\* transaction the server answers COMMIT with a rollback.
Commit(c, dm, qf) ==
    IF c.status = "inerror"
    THEN [conn |-> NewConnection(dm, qf), dm |-> dm, qf |-> qf]
    ELSE [conn |-> [c EXCEPT !.status = "idle"], dm |-> c.dm, qf |-> c.qf]

\* update_data.to_python_type: None stays None, numpy numbers become float
to_python_type(val) == IF val = None THEN None ELSE val

\* update_data.save_daily_metrics: one upsert, then conn.commit()
save_daily_metrics(c, dm, qf, symbol, trade_date, metrics, fault) ==
    LET row == [symbol |-> symbol, trade_date |-> trade_date,
                close_price |-> to_python_type(metrics.close_price),
                market_cap |-> to_python_type(metrics.market_cap),
                pe_ttm |-> to_python_type(metrics.pe_ttm),
                pb_ttm |-> to_python_type(metrics.pb_ttm),
                dividend_yield_ttm |-> to_python_type(metrics.dividend_yield_ttm),
                pe_percentile |-> to_python_type(metrics.pe_percentile),
                pb_percentile |-> to_python_type(metrics.pb_percentile),
                yield_percentile |-> to_python_type(metrics.yield_percentile)]
        e == ExecuteUpsertDaily(c, row, fault)
    IN IF e.raised
       THEN [conn |-> e.conn, dm |-> dm, qf |-> qf, raised |-> TRUE]
       ELSE [conn |-> Commit(e.conn, dm, qf).conn,
             dm |-> Commit(e.conn, dm, qf).dm,
             qf |-> Commit(e.conn, dm, qf).qf,
             raised |-> FALSE]

-----------------------------------------------------------------------------
(* QuarterlyFinancialsStore: save_quarterly_financials *)

Digits == <<"0", "1", "2", "3", "4", "5", "6", "7", "8", "9">>

IsDigit(c) == \E i \in 1..10 : Digits[i] = c
DigitValue(c) == (CHOOSE i \in 1..10 : Digits[i] = c) - 1

DigitChar(n) == Digits[n + 1]

\* str.split('Q')[0]: the characters before the first 'Q' (all of them without one)
RECURSIVE BeforeQ(_)
BeforeQ(s) ==
    IF s = <<>> \/ Head(s) = "Q" THEN <<>> ELSE <<Head(s)>> \o BeforeQ(Tail(s))

\* int(text) on a string of decimal digits; anything else is a ValueError
RECURSIVE DigitsValue(_)
DigitsValue(s) ==
    IF s = <<>> THEN 0 ELSE DigitsValue(SubSeq(s, 1, Len(s) - 1)) * 10 + DigitValue(s[Len(s)])

ParseInt(s) ==
    IF s # <<>> /\ \A i \in 1..Len(s) : IsDigit(s[i])
    THEN [ok |-> TRUE, v |-> DigitsValue(s)]
    ELSE [ok |-> FALSE, v |-> 0]

\* f"{year}Q{quarter}" for a four-digit year (fetch_financial_indicators)
FormatPeriod(year, quarter) ==
    Str(<<DigitChar((year \div 1000) % 10), DigitChar((year \div 100) % 10),
          DigitChar((year \div 10) % 10), DigitChar(year % 10),
          "Q", DigitChar(quarter)>>)

\* Python truthiness of a value: None, '' and 0 are falsy
Truthy(x) ==
    /\ x # None
    /\ ~(x.t = "str" /\ x.s = <<>>)
    /\ ~(x.t = "num" /\ x.v = 0)

\* first year whose reports are kept: `if year < 2020`
MinReportYear == 2020

\* the year test of save_quarterly_financials
YearTooOldMutant(year) == year < MinReportYear - 1

YearTooOld(year) == year < MinReportYear

\* `year = int(report_period.split('Q')[0])` inside try/except (ValueError,
\* IndexError, AttributeError): a report_period that is no str has no split.
PeriodRejected(report_period) ==
    IF report_period.t # "str"
    THEN TRUE
    ELSE LET year == ParseInt(BeforeQ(report_period.s))
         IN IF ~year.ok THEN TRUE ELSE YearTooOld(year.v)

\* `x is not None and x != '' and not (isinstance(x, float) and np.isnan(x))`
KeyMetricValid(x) == x # None /\ x # Str(<<>>) /\ x.t # "nan"

has_valid_data(financials) ==
    KeyMetricValid(financials.roe_ttm) \/ KeyMetricValid(financials.free_cash_flow)

\* Non-key columns of quarterly_financials, in the order of the INSERT column list.
QuarterlyColumns == <<"publish_date", "free_cash_flow", "debt_to_asset_ratio",
                      "dividend_payout_ratio", "roe_ttm", "gross_margin",
                      "revenue_growth_yoy", "net_profit_growth_yoy">>

\* UNIQUE(symbol, report_period)
QuarterlyKey(r) == <<r.symbol, r.report_period>>

\* ON CONFLICT (symbol, report_period) DO UPDATE SET <col> = EXCLUDED.<col>, ...
OnConflictUpdateQuarterly(old, excluded) ==
    [old EXCEPT !.publish_date = excluded.publish_date,
                !.free_cash_flow = excluded.free_cash_flow,
                !.debt_to_asset_ratio = excluded.debt_to_asset_ratio,
                !.dividend_payout_ratio = excluded.dividend_payout_ratio,
                !.roe_ttm = excluded.roe_ttm,
                !.gross_margin = excluded.gross_margin,
                !.revenue_growth_yoy = excluded.revenue_growth_yoy,
                !.net_profit_growth_yoy = excluded.net_profit_growth_yoy]

UpsertQuarterly(table, row) ==
    IF \E r \in table : QuarterlyKey(r) = QuarterlyKey(row)
    THEN {IF QuarterlyKey(r) = QuarterlyKey(row)
          THEN OnConflictUpdateQuarterly(r, row) ELSE r : r \in table}
    ELSE table \cup {row}

\* the server takes a row whose report_period is text and whose DECIMAL columns
\* hold NULL, a number or NaN
QuarterlyRowAccepted(row) ==
    /\ row.report_period.t = "str"
    /\ \A i \in 2..Len(QuarterlyColumns) : IsDecimal(row[QuarterlyColumns[i]])

\* cur.execute(upsert_sql, row) on table quarterly_financials (see ExecuteUpsertDaily)
ExecuteUpsertQuarterly(c, row, fault) ==
    IF c.status = "inerror"
    THEN [conn |-> c, raised |-> TRUE]
    ELSE IF fault \/ ~QuarterlyRowAccepted(row)
    THEN [conn |-> [c EXCEPT !.status = "inerror"], raised |-> TRUE]
    ELSE [conn |-> [c EXCEPT !.status = "intrans", !.qf = UpsertQuarterly(@, row)],
          raised |-> FALSE]

\* update_data.save_quarterly_financials. `financials` is None or a dict;
\* `today` is datetime.now() as a date. skipped: one of the [SKIP] returns.
save_quarterly_financials(c, dm, qf, symbol, financials, today, fault) ==
    LET skip == [conn |-> c, dm |-> dm, qf |-> qf, raised |-> FALSE, skipped |-> TRUE]
    IN IF financials = None THEN skip
       ELSE IF ~Truthy(financials.report_period) THEN skip
       ELSE IF PeriodRejected(financials.report_period) THEN skip
       ELSE IF ~has_valid_data(financials) THEN skip
       ELSE LET row == [symbol |-> symbol,
                        report_period |-> financials.report_period,
                        publish_date |-> today,
                        free_cash_flow |-> to_python_type(financials.free_cash_flow),
                        debt_to_asset_ratio |-> to_python_type(financials.debt_to_asset_ratio),
                        dividend_payout_ratio |-> to_python_type(financials.dividend_payout_ratio),
                        roe_ttm |-> to_python_type(financials.roe_ttm),
                        gross_margin |-> to_python_type(financials.gross_margin),
                        revenue_growth_yoy |-> to_python_type(financials.revenue_growth_yoy),
                        net_profit_growth_yoy |-> to_python_type(financials.net_profit_growth_yoy)]
                e == ExecuteUpsertQuarterly(c, row, fault)
            IN IF e.raised
               THEN [conn |-> e.conn, dm |-> dm, qf |-> qf, raised |-> TRUE,
                     skipped |-> FALSE]
               ELSE [conn |-> Commit(e.conn, dm, qf).conn,
                     dm |-> Commit(e.conn, dm, qf).dm,
                     qf |-> Commit(e.conn, dm, qf).qf,
                     raised |-> FALSE, skipped |-> FALSE]

-----------------------------------------------------------------------------
(* SeriesSmoother and PercentileRanker of backfill_history *)

\* df.sort_values('trade_date'): ascending, rows of equal date keep their order
RECURSIVE InsertByDate(_, _)
InsertByDate(sorted, row) ==
    IF sorted = <<>> THEN <<row>>
    ELSE IF row.trade_date < Head(sorted).trade_date THEN <<row>> \o sorted
    ELSE <<Head(sorted)>> \o InsertByDate(Tail(sorted), row)

SortByDateMutant(rows) == rows

RECURSIVE SortByDate(_)
SortByDate(rows) ==
    IF rows = <<>> THEN <<>>
    ELSE InsertByDate(SortByDate(SubSeq(rows, 1, Len(rows) - 1)), rows[Len(rows)])

\* Series.replace(0, np.nan)
ReplaceZeroMutant(x) == x

ReplaceZero(x) == IF x = Num(0) THEN NaN ELSE x

\* Series.ffill() at position i of the column `col` after replace(0, np.nan)
FfillAtMutant(rows, col, i) == ReplaceZero(rows[i][col])

RECURSIVE FfillAt(_, _, _)
FfillAt(rows, col, i) ==
    IF notna(ReplaceZero(rows[i][col])) THEN rows[i][col]
    ELSE IF i = 1 THEN NaN
    ELSE FfillAt(rows, col, i - 1)

\* sort, then replace(0, nan).ffill() on dv_ttm and on pe_ttm
Smooth(rows) ==
    LET sorted == SortByDate(rows)
    IN [i \in 1..Len(sorted) |->
           [sorted[i] EXCEPT !.dv_ttm = FfillAt(sorted, "dv_ttm", i),
                             !.pe_ttm = FfillAt(sorted, "pe_ttm", i)]]

\* backfill_history.fetch_historical_daily_basic, given what fetch_with_retry did
bf_fetch_historical_daily_basic(fr) ==
    IF ~fr.returned THEN DataFrame(<<>>)
    ELSE IF fr.value.rows = <<>> THEN DataFrame(<<>>)
    ELSE DataFrame(Smooth(fr.value.rows))

\* backfill_single_stock.fetch_historical_daily_basic, given what fetch_with_retry
\* did
ss_fetch_historical_daily_basic(fr) ==
    IF ~fr.returned THEN DataFrame(<<>>)
    ELSE IF fr.value.rows = <<>> THEN DataFrame(<<>>)
    ELSE DataFrame(Smooth(fr.value.rows))

\* yields of 100 % and more are dropped as outliers
YieldOutlier == 10000
\* P/E of 1000 and more is dropped as an outlier
PeOutlier == 100000

\* round(x, 2) of x = num / den * 100 %, in hundredths: half to even
Round2Mutant(num, den) == (num * 10000) \div den

Round2(num, den) ==
    LET q == (num * 10000) \div den
        r == (num * 10000) % den
    IN IF 2 * r < den THEN q
       ELSE IF 2 * r > den THEN q + 1
       ELSE IF q % 2 = 0 THEN q ELSE q + 1

\* (np.sum(kept <= current) / len(kept)) * 100 over the values strictly
\* between 0 and `outlier`, missing values dropped
RankAgainstMutant(current, values, outlier) ==
    LET kept == {i \in 1..Len(values) :
                    notna(values[i]) /\ values[i].v > 0 /\ values[i].v < outlier}
    IN IF kept = {} THEN None
       ELSE Num(Cardinality({i \in kept : values[i].v <= current.v}) * 10000)

\* np.sum(values < current) in place of <=
RankAgainstStrict(current, values, outlier) ==
    LET kept == {i \in 1..Len(values) :
                    notna(values[i]) /\ values[i].v > 0 /\ values[i].v < outlier}
    IN IF kept = {} THEN None
       ELSE Num(Round2(Cardinality({i \in kept : values[i].v < current.v}),
                       Cardinality(kept)))

RankAgainst(current, values, outlier) ==
    LET kept == {i \in 1..Len(values) :
                    notna(values[i]) /\ values[i].v > 0 /\ values[i].v < outlier}
    IN IF kept = {} THEN None
       ELSE Num(Round2(Cardinality({i \in kept : values[i].v <= current.v}),
                       Cardinality(kept)))

\* backfill_history.calculate_yield_percentile
bf_calculate_yield_percentile(current_yield, historical_yields) ==
    IF historical_yields = <<>> \/ current_yield = None \/ current_yield.v <= 0
    THEN None
    ELSE RankAgainst(current_yield, historical_yields, YieldOutlier)

\* backfill_history.calculate_pe_percentile
bf_calculate_pe_percentile(current_pe, historical_pe) ==
    IF historical_pe = <<>> \/ current_pe = None \/ current_pe.v <= 0
    THEN None
    ELSE RankAgainst(current_pe, historical_pe, PeOutlier)

\* backfill_history.to_python_type: None and NaN become None
bf_to_python_typeMutant(val) == IF val = None THEN None ELSE val

bf_to_python_type(val) == IF val = None \/ val = NaN THEN None ELSE val

\* 'YYYYMMDD' to 'YYYY-MM-DD' by slicing [:4], [4:6], [6:8]; the raw date is
\* held as the number its eight digits spell (0: the empty string)
FormatTradeDate(raw) == Date(raw \div 10000, (raw \div 100) % 100, raw % 100)

\* df[df['trade_date'] <= row['trade_date']][col]
ColumnUpToMutant(df, col, trade_date) == [i \in 1..Len(df) |-> df[i][col]]

ColumnUpTo(df, col, trade_date) ==
    LET idx == {i \in 1..Len(df) : df[i].trade_date <= trade_date}
    IN [k \in 1..Cardinality(idx) |->
           df[CHOOSE i \in idx : Cardinality({j \in idx : j < i}) = k - 1][col]]

\* the row backfill_stock_history sends for df row `row`
BackfillDbRow(symbol, df, row) ==
    [symbol |-> symbol,
     trade_date |-> FormatTradeDate(row.trade_date),
     close_price |-> bf_to_python_type(row.close),
     market_cap |-> IF notna(row.total_mv)
                    THEN Num(bf_to_python_type(row.total_mv).v \div 10000)
                    ELSE None,
     pe_ttm |-> bf_to_python_type(row.pe_ttm),
     pb_ttm |-> bf_to_python_type(row.pb),
     dividend_yield_ttm |-> bf_to_python_type(row.dv_ttm),
     pe_percentile |->
         IF notna(row.pe_ttm) /\ row.pe_ttm.v > 0
         THEN bf_to_python_type(bf_calculate_pe_percentile(
                  row.pe_ttm, ColumnUpTo(df, "pe_ttm", row.trade_date)))
         ELSE None,
     pb_percentile |-> None,
     yield_percentile |->
         IF notna(row.dv_ttm) /\ row.dv_ttm.v > 0
         THEN bf_to_python_type(bf_calculate_yield_percentile(
                  row.dv_ttm, ColumnUpTo(df, "dv_ttm", row.trade_date)))
         ELSE None]

\* `to_python_type(row['total_mv']) / 10000` raises TypeError on a str
MarketCapRaises(row) == notna(row.total_mv) /\ row.total_mv.t = "str"

\* The for-loop of backfill_stock_history from row i on, inside
\* `with conn.cursor() as cur`: an exception leaves the block with the cursor
\* closed and the transaction as it is. fault_at: the row whose statement the server
\* rejects (0: none). sent: the rows executed so far.
RECURSIVE BackfillLoop(_, _, _, _, _, _, _, _)
BackfillLoop(c, dm, qf, symbol, df, i, fault_at, sent) ==
    IF i > Len(df)
    THEN [conn |-> c, raised |-> FALSE, sent |-> sent]
    ELSE IF MarketCapRaises(df[i])
    THEN [conn |-> c, raised |-> TRUE, sent |-> sent]
    ELSE LET row == BackfillDbRow(symbol, df, df[i])
             e == ExecuteUpsertDaily(c, row, fault_at = i)
         IN IF e.raised
            THEN [conn |-> e.conn, raised |-> TRUE,
                  sent |-> sent]
            ELSE BackfillLoop(e.conn, dm, qf, symbol, df, i + 1, fault_at,
                              sent \cup {row})

\* backfill_history.backfill_stock_history, given what the upstream request did.
\* saved: the count returned; committed: conn.commit() was reached.
backfill_stock_history(c, dm, qf, symbol, fr, fault_at) ==
    LET df == bf_fetch_historical_daily_basic(fr).rows
    IN IF df = <<>>
       THEN [conn |-> c, dm |-> dm, qf |-> qf, raised |-> FALSE, saved |-> 0,
             sent |-> {}, committed |-> FALSE]
       ELSE LET loop == BackfillLoop(c, dm, qf, symbol, SortByDate(df), 1, fault_at, {})
            IN IF loop.raised
               THEN [conn |-> loop.conn, dm |-> dm, qf |-> qf, raised |-> TRUE,
                     saved |-> 0, sent |-> loop.sent, committed |-> FALSE]
               ELSE [conn |-> Commit(loop.conn, dm, qf).conn,
                     dm |-> Commit(loop.conn, dm, qf).dm,
                     qf |-> Commit(loop.conn, dm, qf).qf,
                     raised |-> FALSE, saved |-> Len(df), sent |-> loop.sent,
                     committed |-> TRUE]

-----------------------------------------------------------------------------
(* FreshMetricsUpdater: update_data.process_single_stock and what it calls *)

\* a value float() does not take: a str that does not spell a number
FloatRaises(x) == x.t = "str"

\* `float(x) if pd.notna(x) else None`
FloatOrNone(x) == IF notna(x) THEN x ELSE None

\* payout_ratio = pe_ttm * (dv_ttm / 100), capped at 2.0 when above 1.0
PayoutRatio(pe_ttm, dv_ttm) ==
    IF notna(pe_ttm) /\ notna(dv_ttm) /\ pe_ttm.v > 0 /\ dv_ttm.v > 0
    THEN LET p == (pe_ttm.v * dv_ttm.v) \div 10000
         IN Num(IF p > 100 THEN (IF p < 200 THEN p ELSE 200) ELSE p)
    ELSE None

\* update_data.fetch_daily_basic, given what fetch_with_retry did: the first
\* row of the answer as a dict, or None (request failed, empty answer, or an
\* exception while reading the row)
fetch_daily_basic(fr) ==
    IF ~fr.returned THEN None
    ELSE IF fr.value.rows = <<>> THEN None
    ELSE LET row == fr.value.rows[1]
         IN IF \E col \in {"close", "total_mv", "pe_ttm", "pb", "dv_ttm"} :
                   FloatRaises(row[col])
            THEN None
            ELSE [t |-> "dict",
                  trade_date |-> row.trade_date,
                  close_price |-> FloatOrNone(row.close),
                  market_cap |-> IF notna(row.total_mv)
                                 THEN Num(row.total_mv.v \div 10000) ELSE None,
                  pe_ttm |-> FloatOrNone(row.pe_ttm),
                  pb_ttm |-> FloatOrNone(row.pb),
                  dividend_yield_ttm |-> FloatOrNone(row.dv_ttm),
                  payout_ratio |-> PayoutRatio(row.pe_ttm, row.dv_ttm)]

\* pd.to_datetime('YYYYMMDD'): a Timestamp, held as a day number that orders
\* as the calendar does
to_datetime(raw) ==
    ((raw \div 10000) * 12 + ((raw \div 100) % 100)) * 31 + (raw % 100)

\* update_data.fetch_historical_daily_basic, given what fetch_with_retry did
fetch_historical_daily_basic(fr) ==
    IF ~fr.returned THEN DataFrame(<<>>)
    ELSE IF fr.value.rows = <<>> THEN DataFrame(<<>>)
    ELSE DataFrame(Smooth([i \in 1..Len(fr.value.rows) |->
             [fr.value.rows[i] EXCEPT !.trade_date = to_datetime(@)]]))

\* df[col] as a sequence
Column(df, col) == [i \in 1..Len(df) |-> df[i][col]]

\* update_data.calculate_yield_percentile
calculate_yield_percentile(current_yield, historical_df) ==
    IF historical_df = <<>> \/ current_yield = None \/ current_yield.v <= 0
    THEN None
    ELSE RankAgainst(current_yield, Column(historical_df, "dv_ttm"), YieldOutlier)

\* update_data.calculate_pe_percentile
calculate_pe_percentile(current_pe, historical_df) ==
    IF historical_df = <<>> \/ current_pe = None \/ current_pe.v <= 0
    THEN None
    ELSE RankAgainst(current_pe, Column(historical_df, "pe_ttm"), PeOutlier)

\* text[a:b] of Python
Slice(text, a, b) == SubSeq(text, a + 1, IF b < Len(text) THEN b ELSE Len(text))

\* str(latest['end_date'])
EndDateText(end_date) == IF end_date = None THEN <<"N", "o", "n", "e">> ELSE end_date.s

\* end_date 'YYYYMMDD' to f"{year}Q{quarter}", None when int() raises
ReportPeriod(end_date) ==
    LET year == ParseInt(Slice(EndDateText(end_date), 0, 4))
        month == ParseInt(Slice(EndDateText(end_date), 4, 6))
    IN IF year.ok /\ month.ok
       THEN FormatPeriod(year.v, ((month.v - 1) \div 3) + 1)
       ELSE None

\* the cash-flow block of fetch_financial_indicators: the row of the same
\* end_date, else the latest row; None when the request failed or came back empty
OperatingCashFlow(frCash, end_date) ==
    IF ~frCash.returned THEN None
    ELSE IF frCash.value.rows = <<>> THEN None
    ELSE LET cf == frCash.value.rows
             same == {i \in 1..Len(cf) : cf[i].end_date = end_date}
             ocf == IF same # {}
                    THEN cf[CHOOSE i \in same : \A j \in same : i <= j].n_cashflow_act
                    ELSE cf[1].n_cashflow_act
         IN IF notna(ocf) THEN ocf ELSE None

\* `float(x) / 100 if pd.notna(x) else None` (the samples are whole percents)
PercentToRatio(x) == IF notna(x) THEN Num(x.v \div 100) ELSE None

\* update_data.fetch_financial_indicators, given what the two requests did
fetch_financial_indicators(frFin, frCash) ==
    IF ~frFin.returned THEN None
    ELSE IF frFin.value.rows = <<>> THEN None
    ELSE LET latest == frFin.value.rows[1]
         IN IF \E col \in {"roe", "grossprofit_margin", "debt_to_assets", "or_yoy",
                           "netprofit_yoy"} : FloatRaises(latest[col])
            THEN None
            ELSE [t |-> "dict",
                  report_period |-> ReportPeriod(latest.end_date),
                  roe_ttm |-> PercentToRatio(latest.roe),
                  gross_margin |-> PercentToRatio(latest.grossprofit_margin),
                  debt_to_asset_ratio |-> PercentToRatio(latest.debt_to_assets),
                  free_cash_flow |-> OperatingCashFlow(frCash, latest.end_date),
                  dividend_payout_ratio |-> None,
                  revenue_growth_yoy |-> PercentToRatio(latest.or_yoy),
                  net_profit_growth_yoy |-> PercentToRatio(latest.netprofit_yoy)]

\* (current - last_year) / abs(last_year) as a ratio in hundredths
YoY(current, last_year) ==
    IF notna(current) /\ notna(last_year) /\ last_year.v # 0
    THEN Num(((current.v - last_year.v) * 100)
             \div (IF last_year.v < 0 THEN -last_year.v ELSE last_year.v))
    ELSE None

\* update_data.fetch_growth_metrics, given what fetch_with_retry did
fetch_growth_metrics(fr) ==
    IF ~fr.returned THEN None
    ELSE IF Len(fr.value.rows) < 5 THEN None
    ELSE LET current == fr.value.rows[1]
             last_year == fr.value.rows[5]
         IN [t |-> "dict",
             revenue_growth_yoy |-> YoY(current.total_revenue, last_year.total_revenue),
             net_profit_growth_yoy |-> YoY(current.n_income, last_year.n_income)]

\* the request for growth metrics is made when fina_indicator left one open
NeedsGrowthMutant(financials) == TRUE

NeedsGrowth(financials) ==
    financials.revenue_growth_yoy = None \/ financials.net_profit_growth_yoy = None

\* step 5 of process_single_stock: fill the growth fields that are None,
\* then take the payout ratio computed from the quote
CompleteFinancials(financials, growth, daily_data) ==
    LET g == IF NeedsGrowth(financials) /\ growth # None
             THEN [financials EXCEPT
                     !.revenue_growth_yoy =
                         IF @ = None /\ growth.revenue_growth_yoy # None
                         THEN growth.revenue_growth_yoy ELSE @,
                     !.net_profit_growth_yoy =
                         IF @ = None /\ growth.net_profit_growth_yoy # None
                         THEN growth.net_profit_growth_yoy ELSE @]
             ELSE financials
    IN IF daily_data.payout_ratio # None
       THEN [g EXCEPT !.dividend_payout_ratio = daily_data.payout_ratio]
       ELSE g

\* `daily_data["dividend_yield_ttm"] is None or daily_data["dividend_yield_ttm"] <= 0`
YieldGuardMutant(daily_data) == daily_data.dividend_yield_ttm = None

YieldGuard(daily_data) ==
    daily_data.dividend_yield_ttm = None \/ daily_data.dividend_yield_ttm.v <= 0

\* the metrics dict of step 4
DailyMetrics(daily_data, historical) ==
    [close_price |-> daily_data.close_price,
     market_cap |-> daily_data.market_cap,
     pe_ttm |-> daily_data.pe_ttm,
     pb_ttm |-> daily_data.pb_ttm,
     dividend_yield_ttm |-> daily_data.dividend_yield_ttm,
     pe_percentile |->
         IF historical # <<>> /\ Truthy(daily_data.pe_ttm)
         THEN calculate_pe_percentile(daily_data.pe_ttm, historical) ELSE None,
     pb_percentile |-> None,
     yield_percentile |->
         IF historical # <<>> /\ Truthy(daily_data.dividend_yield_ttm)
                              /\ daily_data.dividend_yield_ttm.v > 0
         THEN calculate_yield_percentile(daily_data.dividend_yield_ttm, historical)
         ELSE None]

\* the row save_daily_metrics sends for these metrics
DailyDbRow(symbol, trade_date, metrics) ==
    [symbol |-> symbol, trade_date |-> trade_date,
     close_price |-> to_python_type(metrics.close_price),
     market_cap |-> to_python_type(metrics.market_cap),
     pe_ttm |-> to_python_type(metrics.pe_ttm),
     pb_ttm |-> to_python_type(metrics.pb_ttm),
     dividend_yield_ttm |-> to_python_type(metrics.dividend_yield_ttm),
     pe_percentile |-> to_python_type(metrics.pe_percentile),
     pb_percentile |-> to_python_type(metrics.pb_percentile),
     yield_percentile |-> to_python_type(metrics.yield_percentile)]

\* update_data.process_single_stock. `up` holds what the provider and the
\* server do during the call: the outcome of each request (daily, hist, fin,
\* cash, income) and whether the server rejects the daily or the quarterly
\* statement. returned: True / False; raised: an exception left the call.
process_single_stock(c, dm, qf, symbol, up, today) ==
    LET daily_data == fetch_daily_basic(up.daily)
        stay == [conn |-> c, dm |-> dm, qf |-> qf, raised |-> FALSE,
                 returned |-> FALSE, sent |-> {}, committed |-> FALSE]
    IN IF daily_data = None THEN stay
       ELSE IF YieldGuard(daily_data) THEN stay
       ELSE LET trade_date == IF daily_data.trade_date # 0
                              THEN FormatTradeDate(daily_data.trade_date)
                              ELSE today
                historical == fetch_historical_daily_basic(up.hist).rows
                metrics == DailyMetrics(daily_data, historical)
                d == save_daily_metrics(c, dm, qf, symbol, trade_date, metrics,
                                        up.fault_daily)
            IN IF d.raised
               THEN [conn |-> d.conn, dm |-> d.dm, qf |-> d.qf, raised |-> TRUE,
                     returned |-> FALSE, sent |-> {}, committed |-> FALSE]
               ELSE LET sent == {DailyDbRow(symbol, trade_date, metrics)}
                        fetched == fetch_financial_indicators(up.fin, up.cash)
                    IN IF fetched = None
                       THEN [conn |-> d.conn, dm |-> d.dm, qf |-> d.qf, raised |-> FALSE,
                             returned |-> TRUE, sent |-> sent, committed |-> TRUE]
                       ELSE LET financials ==
                                    CompleteFinancials(fetched,
                                        fetch_growth_metrics(up.income), daily_data)
                                q == save_quarterly_financials(d.conn, d.dm, d.qf, symbol,
                                         financials, today, up.fault_quarterly)
                            IN [conn |-> q.conn, dm |-> q.dm, qf |-> q.qf,
                                raised |-> q.raised, returned |-> ~q.raised,
                                sent |-> sent, committed |-> TRUE]

-----------------------------------------------------------------------------
(* Specification SpecRetry: fetch_with_retry applied to every bounded       *)
(* upstream behaviour.                                                      *)

\* two distinguishable DataFrames an invocation may return
RetryValues == {DataFrame(<<1>>), DataFrame(<<2>>)}
RetryErrors == {"timeout", "ratelimit"}
Responses == {Ok(v) : v \in RetryValues} \cup {Err(k) : k \in RetryErrors}

\* all sequences of n responses
RECURSIVE RespSeqs(_)
RespSeqs(n) ==
    IF n = 0 THEN {<<>>}
    ELSE {Append(s, r) : s \in RespSeqs(n - 1), r \in Responses}

\* n: how many direct calls were made so far
NoCall == [fn |-> "none", n |-> 0]

IdleRun ==
    /\ daily_metrics = {}
    /\ quarterly_financials = {}
    /\ stock_meta = {}
    /\ conn = NewConnection({}, {})
    /\ script = "none"
    /\ args = [symbol |-> None]
    /\ stocks = <<>>
    /\ pos = 0
    /\ pc = "done"
    /\ success_count = 0
    /\ fail_count = 0
    /\ total_saved = 0
    /\ obs = <<>>

InitRetry == IdleRun /\ call = NoCall

\* One logical request. The upstream behaviour is one response longer than the
\* largest max_retries, so an invocation past the allowed attempts would show.
CallFetchWithRetry ==
    /\ call = NoCall
    /\ \E resp \in RespSeqs(MaxRetriesArg + 1), m \in 1..MaxRetriesArg :
          call' = [fn |-> "fetch_with_retry", n |-> 1, resp |-> resp, max_retries |-> m,
                   delay |-> RETRY_DELAY,
                   res |-> fetch_with_retry(resp, m, RETRY_DELAY)]
    /\ UNCHANGED <<daily_metrics, quarterly_financials, stock_meta, conn, script,
                   args, stocks, pos, pc, success_count, fail_count, total_saved, obs>>

NextRetry == CallFetchWithRetry

SpecRetry == InitRetry /\ [][NextRetry]_vars

(* Claims on fetch_with_retry *)

IsRetryCall == call.fn = "fetch_with_retry"

\* index of the first successful response among the first m, 0 when none
FirstOk(resp, m) ==
    IF \E i \in 1..m : resp[i].ok
    THEN CHOOSE i \in 1..m : resp[i].ok /\ \A j \in 1..(i - 1) : ~resp[j].ok
    ELSE 0

SleepCount(log) == Cardinality({i \in 1..Len(log) : log[i].ev = "sleep"})

Min(a, b) == IF a < b THEN a ELSE b

\* C4: fetch_with_retry invokes the wrapped call at most max_retries times, stops
\* at the first successful invocation and returns its result, and the caller
\* sees exactly one outcome: that result or one raised failure.
C4_AtMostMaxRetriesOneOutcome ==
    IsRetryCall =>
        LET m == call.max_retries
            f == FirstOk(call.resp, m)
            res == call.res
        IN /\ res.calls <= m
           /\ res.returned # (res.raised # None)
           /\ f > 0 => /\ res.calls = f
                       /\ res.returned
                       /\ res.value = call.resp[f].v
           /\ f = 0 => /\ ~res.returned
                       /\ res.raised.t = "exc"

\* a request that succeeded on a retry, with a response left unused after it
C4_Witness ==
    /\ IsRetryCall
    /\ call.max_retries = MAX_RETRIES
    /\ FirstOk(call.resp, call.max_retries) = 2
    /\ call.res.calls = 2
    /\ call.res.returned

\* C5: when all max_retries invocations fail, the error raised to the caller is
\* the one raised by the last invocation, and no value is returned.
C5_LastErrorPropagates ==
    (IsRetryCall /\ FirstOk(call.resp, call.max_retries) = 0) =>
        /\ ~call.res.returned
        /\ call.res.value = None
        /\ call.res.raised =
               Exc(call.resp[call.max_retries].kind, call.max_retries)

\* three failures of which the first and the last differ in kind
C5_Witness ==
    /\ IsRetryCall
    /\ call.max_retries = MAX_RETRIES
    /\ FirstOk(call.resp, MAX_RETRIES) = 0
    /\ call.resp[1].kind # call.resp[MAX_RETRIES].kind
    /\ call.res.raised.at = MAX_RETRIES

\* C6: every failed invocation but the last allowed one is followed by exactly
\* one sleep of `delay` before the next invocation; nothing is slept after a
\* success or after the final failure: k failures sleep min(k, max_retries - 1).
C6_SleepBetweenAttemptsOnly ==
    IsRetryCall =>
        LET m == call.max_retries
            res == call.res
            log == res.log
            k == IF res.returned THEN res.calls - 1 ELSE res.calls
        IN /\ SleepCount(log) = Min(k, m - 1)
           /\ Len(log) = 2 * res.calls - 1
           /\ \A i \in 1..Len(log) :
                  IF i % 2 = 1
                  THEN log[i].ev = "call"
                  ELSE log[i].ev = "sleep" /\ log[i].d = call.delay

\* every attempt failed: the last failure is not followed by a sleep
C6_Witness ==
    /\ IsRetryCall
    /\ call.max_retries = MAX_RETRIES
    /\ ~call.res.returned
    /\ call.res.calls = MAX_RETRIES
    /\ SleepCount(call.res.log) = MAX_RETRIES - 1


-----------------------------------------------------------------------------
(* Specification SpecDaily: save_daily_metrics called directly, up to       *)
(* MaxStoreCalls times on one connection, with bounded arguments.            *)

\* number of trade dates the direct calls write to
StoreDates == 2
\* number of direct calls made on one connection
MaxStoreCalls == 2

StoreSymbol == "600036"
StoreTradeDates == {Date(2024, 1, 1 + i) : i \in 1..StoreDates}

\* a metrics dict with a different number in every column
BaseMetrics(k) ==
    [close_price |-> Num(1000 + k), market_cap |-> Num(2000 + k),
     pe_ttm |-> Num(3000 + k), pb_ttm |-> Num(4000 + k),
     dividend_yield_ttm |-> Num(5000 + k), pe_percentile |-> Num(6000 + k),
     pb_percentile |-> Num(7000 + k), yield_percentile |-> Num(8000 + k)]

NoneMetrics ==
    [close_price |-> None, market_cap |-> None, pe_ttm |-> None, pb_ttm |-> None,
     dividend_yield_ttm |-> None, pe_percentile |-> None, pb_percentile |-> None,
     yield_percentile |-> None]

MetricsSamples ==
    {BaseMetrics(1), BaseMetrics(2), NoneMetrics}
    \cup {[BaseMetrics(1) EXCEPT ![DailyColumns[i]] = None] : i \in 1..Len(DailyColumns)}

RowsWithKey(table, symbol, trade_date) ==
    {r \in table : r.symbol = symbol /\ r.trade_date = trade_date}

\* columns in which a stored non-null value meets an incoming None
NulledColumns(table, symbol, trade_date, metrics) ==
    {i \in 1..Len(DailyColumns) :
        /\ metrics[DailyColumns[i]] = None
        /\ \E r \in RowsWithKey(table, symbol, trade_date) : r[DailyColumns[i]] # None}

InitDaily == IdleRun /\ call = NoCall

CallSaveDailyMetrics ==
    /\ call.n < MaxStoreCalls
    /\ \E trade_date \in StoreTradeDates, metrics \in MetricsSamples, fault \in BOOLEAN :
        LET res == save_daily_metrics(conn, daily_metrics, quarterly_financials,
                                      StoreSymbol, trade_date, metrics, fault)
        IN /\ conn' = res.conn
           /\ daily_metrics' = res.dm
           /\ quarterly_financials' = res.qf
           /\ call' = [fn |-> "save_daily_metrics", n |-> call.n + 1, symbol |-> StoreSymbol,
                       trade_date |-> trade_date, metrics |-> metrics,
                       raised |-> res.raised,
                       existed |-> RowsWithKey(daily_metrics, StoreSymbol, trade_date) # {},
                       nulled |-> NulledColumns(daily_metrics, StoreSymbol,
                                                trade_date, metrics)]
           /\ UNCHANGED <<stock_meta, script, args, stocks, pos, pc, success_count,
                          fail_count, total_saved, obs>>

NextDaily == CallSaveDailyMetrics

SpecDaily == InitDaily /\ [][NextDaily]_vars

\* C8: an upsert that hits an existing (symbol, trade_date) leaves, in every
\* non-key column, the incoming value, also where the incoming value is null
\* and the stored one was not; no column keeps its old value.
C8_UpsertOverwritesEveryColumn ==
    (call.fn = "save_daily_metrics" /\ ~call.raised) =>
        LET rows == RowsWithKey(daily_metrics, call.symbol, call.trade_date)
        IN /\ Cardinality(rows) = 1
           /\ \A r \in rows : \A i \in 1..Len(DailyColumns) :
                 r[DailyColumns[i]] = call.metrics[DailyColumns[i]]

\* an upsert on an existing key that replaced a stored percentile by null
C8_Witness ==
    /\ call.fn = "save_daily_metrics"
    /\ ~call.raised
    /\ call.existed
    /\ \E i \in call.nulled : DailyColumns[i] = "yield_percentile"
    /\ \E i \in call.nulled : DailyColumns[i] = "close_price"

-----------------------------------------------------------------------------
(* Specification SpecQuarterly: save_quarterly_financials called directly,   *)
(* up to MaxStoreCalls times on one connection, with bounded arguments.      *)

\* datetime.now() of the run, as a date
Today == Date(2024, 1, 3)

\* report periods with the year they name (0: none can be read from it)
PeriodSamples ==
    {[p |-> FormatPeriod(2019, 4), year |-> 2019],
     [p |-> FormatPeriod(2020, 1), year |-> 2020],
     [p |-> FormatPeriod(2021, 1), year |-> 2021],
     [p |-> None, year |-> 0],
     [p |-> Str(<<>>), year |-> 0],
     [p |-> Str(<<"2", "0", "x", "1", "Q", "3">>), year |-> 0],
     [p |-> Num(2021), year |-> 0]}

Financials(period, roe, fcf) ==
    [report_period |-> period, roe_ttm |-> roe, gross_margin |-> Num(30),
     debt_to_asset_ratio |-> Num(40), free_cash_flow |-> fcf,
     dividend_payout_ratio |-> None, revenue_growth_yoy |-> Num(5),
     net_profit_growth_yoy |-> None]

RoeSamples == {None, NaN, Str(<<>>), Num(15)}
CashFlowSamples == {None, NaN, Num(15)}

\* the financials arguments tried, each with the year its report_period names
FinancialsSamples ==
    {[f |-> None, year |-> 0]}
    \cup {[f |-> Financials(ps.p, roe, fcf), year |-> ps.year] :
             ps \in PeriodSamples, roe \in RoeSamples, fcf \in CashFlowSamples}

InitQuarterly == IdleRun /\ call = NoCall

CallSaveQuarterlyFinancials ==
    /\ call.n < MaxStoreCalls
    /\ \E fs \in FinancialsSamples, fault \in BOOLEAN :
        LET res == save_quarterly_financials(conn, daily_metrics, quarterly_financials,
                                             StoreSymbol, fs.f, Today, fault)
        IN /\ conn' = res.conn
           /\ daily_metrics' = res.dm
           /\ quarterly_financials' = res.qf
           /\ call' = [fn |-> "save_quarterly_financials", n |-> call.n + 1,
                       symbol |-> StoreSymbol, financials |-> fs.f, year |-> fs.year,
                       raised |-> res.raised, skipped |-> res.skipped]
           /\ UNCHANGED <<stock_meta, script, args, stocks, pos, pc, success_count,
                          fail_count, total_saved, obs>>

NextQuarterly == CallSaveQuarterlyFinancials

SpecQuarterly == InitQuarterly /\ [][NextQuarterly]_vars

NullOrNaN(x) == x = None \/ x = NaN

\* the records the validation gate is to refuse: no readable report year, a
\* year before 2020, or both key metrics null or NaN
GateRefuses(c) ==
    \/ c.financials = None
    \/ c.year < 2020
    \/ NullOrNaN(c.financials.roe_ttm) /\ NullOrNaN(c.financials.free_cash_flow)

\* C10: save_quarterly_financials never writes a record whose report year is
\* before 2020, nor one whose roe_ttm and free_cash_flow are both null or NaN;
\* on every such record, and on a missing or unparsable report_period, it
\* returns without raising and leaves the store and the transaction as they were.
C10_ValidationGate ==
    [][(call'.fn = "save_quarterly_financials" /\ GateRefuses(call')) =>
          /\ ~call'.raised
          /\ quarterly_financials' = quarterly_financials
          /\ daily_metrics' = daily_metrics
          /\ conn' = conn]_vars

\* a 2019Q4 record with both key metrics valid was refused, after an earlier
\* record had been stored
C10_Witness ==
    /\ call.fn = "save_quarterly_financials"
    /\ call.year = 2019
    /\ call.financials.roe_ttm = Num(15)
    /\ call.financials.free_cash_flow = Num(15)
    /\ ~call.raised
    /\ quarterly_financials # {}
    /\ \A r \in quarterly_financials : r.report_period # FormatPeriod(2019, 4)

-----------------------------------------------------------------------------
(* Specification Spec: one run of update_data.main or backfill_history.main   *)
(* over the watchlist, against an upstream provider and a database server     *)
(* that may fail.                                                             *)

\* length of the longest upstream daily series
MaxDates == 2

SymA == "600036"
SymB == "000651"
SymC == "300750"

\* the stocks update_data seeds an empty watchlist with
SEED_STOCKS == <<"601088", "600036", "600900">>

\* update_data.seed_stock_pool: INSERT ... ON CONFLICT (symbol) DO NOTHING for
\* every seed when stock_meta has no row at all
seed_stock_pool(meta) ==
    IF Cardinality(meta) = 0
    THEN {[symbol |-> SEED_STOCKS[i], is_active |-> TRUE] : i \in 1..Len(SEED_STOCKS)}
    ELSE meta

Symbols == {SymA, SymB, SymC} \cup {SEED_STOCKS[i] : i \in 1..Len(SEED_STOCKS)}

\* the watchlist the run finds: two active symbols, one inactive
Watchlist ==
    {[symbol |-> SymA, is_active |-> TRUE],
     [symbol |-> SymB, is_active |-> TRUE],
     [symbol |-> SymC, is_active |-> FALSE]}

\* SELECT symbol, name FROM stock_meta WHERE is_active = true
ActiveSymbols(meta) == {r.symbol : r \in {m \in meta : m.is_active}}

\* a result set in some order: the SELECT has no ORDER BY
Orderings(S) ==
    {q \in [1..Cardinality(S) -> S] : \A i, j \in 1..Cardinality(S) : q[i] = q[j] => i = j}

\* the raw trade_date 'YYYYMMDD' of the i-th trading day
RawDate(i) == 20240100 + i

\* one row of pro.daily_basic for the i-th trading day.
\*   good:   every field present       hole: yield 0 and the other ratios missing
\*   nodv:   the yield missing
\*   bad:    total_mv is a str that does not spell a number
\*   prior:  what an earlier run saw for that day
\* total_mv is a multiple of 10000, so that total_mv / 10000 is exact here.
QuoteRow(kind, i) ==
    [trade_date |-> RawDate(i),
     close |-> IF kind = "prior" THEN Num(900) ELSE Num(1000 + 100 * i),
     pe_ttm |-> IF kind = "hole" THEN NaN
                ELSE IF kind = "prior" THEN Num(1200) ELSE Num(1100 - 100 * i),
     pb |-> IF kind = "hole" THEN NaN ELSE Num(150),
     dv_ttm |-> IF kind = "hole" THEN Num(0) ELSE IF kind = "nodv" THEN NaN
                ELSE IF kind = "prior" THEN Num(250) ELSE Num(300 + 100 * i),
     total_mv |-> IF kind = "hole" THEN NaN
                  ELSE IF kind = "bad" THEN Str(<<"-">>) ELSE Num(2000000)]

\* the series the provider may return, rows of the given kinds: 1..MaxDates
\* trading days, newest first
SeriesOver(kinds) ==
    UNION {{[i \in 1..n |-> QuoteRow(k[i], n + 1 - i)] : k \in [1..n -> kinds]} :
           n \in 1..MaxDates}

\* answers to the backfill's request for the whole series
SeriesFrames == {DataFrame(<<>>)} \cup {DataFrame(q) : q \in SeriesOver({"good", "hole", "bad"})}

\* answers to the updater's request for the latest quote
QuoteFrames ==
    {DataFrame(<<>>)} \cup
    {DataFrame(<<QuoteRow(k, MaxDates)>>) : k \in {"good", "nodv", "hole", "bad"}}

\* answers to the updater's request for the history: nothing, MaxDates good
\* days, or the same with a hole on the newest day
HistFrames ==
    {DataFrame(<<>>),
     DataFrame([i \in 1..MaxDates |-> QuoteRow("good", MaxDates + 1 - i)]),
     DataFrame([i \in 1..MaxDates |->
                   QuoteRow(IF i = 1 THEN "hole" ELSE "good", MaxDates + 1 - i)])}

\* one row of pro.fina_indicator; the percentages are whole percents
FinRow(kind) ==
    [end_date |-> IF kind = "nodate" THEN None
                  ELSE IF kind = "old" THEN Str(<<"2", "0", "1", "9", "1", "2", "3", "1">>)
                  ELSE Str(<<"2", "0", "2", "1", "0", "3", "3", "1">>),
     roe |-> IF kind = "noroe" THEN NaN ELSE IF kind = "prior" THEN Num(1200) ELSE Num(1500),
     grossprofit_margin |-> Num(4000),
     debt_to_assets |-> Num(6000),
     or_yoy |-> IF kind = "nogrowth" THEN NaN ELSE Num(1000),
     netprofit_yoy |-> Num(2000)]

FinFrames ==
    {DataFrame(<<>>)} \cup
    {DataFrame(<<FinRow(k)>>) : k \in {"full", "nogrowth", "old"}}

\* the answer of pro.cashflow: the statement of 2021-03-31
CashFrames ==
    {DataFrame(<<[end_date |-> Str(<<"2", "0", "2", "1", "0", "3", "3", "1">>),
                  n_cashflow_act |-> Num(5000000)]>>)}

IncomeRow(total_revenue, n_income) ==
    [total_revenue |-> Num(total_revenue), n_income |-> Num(n_income)]

\* the answer of pro.income: five quarters
IncomeFrames ==
    {DataFrame(<<IncomeRow(1500000, 250000), IncomeRow(1400000, 240000),
                 IncomeRow(1300000, 230000), IncomeRow(1200000, 220000),
                 IncomeRow(1000000, 200000)>>)}

\* how a logical request may go: the number of attempts that fail before the
\* provider answers; MAX_RETRIES of them exhaust the retries. The first
\* request for a symbol may also need one retry.
FirstRequest == {0, 1, MAX_RETRIES}
FollowUp == {0, MAX_RETRIES}

\* the provider's behaviour over the attempts of one logical request
Upstream(fails, df) ==
    [i \in 1..MAX_RETRIES |-> IF i <= fails THEN Err("timeout") ELSE Ok(df)]

\* fetch_with_retry(pro.<api>, ...) with the configured defaults
Request(fails, df) == fetch_with_retry(Upstream(fails, df), MAX_RETRIES, RETRY_DELAY)

Answers(frames, failures) == {Request(k, f) : k \in failures, f \in frames}

\* what fetch_with_retry hands back for each request of a call
SeriesAnswers == Answers(SeriesFrames, FirstRequest)
QuoteAnswers == Answers(QuoteFrames, FirstRequest)
HistAnswers == Answers(HistFrames, FollowUp)
FinAnswers == Answers(FinFrames, FollowUp)
CashAnswers == Answers(CashFrames, FollowUp)
IncomeAnswers == Answers(IncomeFrames, FollowUp)

\* a request the call never made
NotAsked == [returned |-> FALSE, calls |-> 0]

\* what a backfill of `rows` for `symbol` stores
BackfillBatch(symbol, rows) ==
    {BackfillDbRow(symbol, Smooth(rows), Smooth(rows)[i]) : i \in 1..Len(rows)}

\* the daily store an earlier backfill run left
PriorDaily ==
    UNION {BackfillBatch(s, [i \in 1..MaxDates |-> QuoteRow("prior", i)]) :
           s \in ActiveSymbols(Watchlist)}

Bool(b) == [t |-> "bool", v |-> b]

\* the quarterly store an earlier updater run left
PriorQuarterly ==
    UNION {save_quarterly_financials(NewConnection({}, {}), {}, {}, s,
               fetch_financial_indicators(Request(0, DataFrame(<<FinRow("prior")>>)),
                                          Request(0, DataFrame(<<>>))),
               Date(2024, 1, 1), FALSE).qf :
           s \in ActiveSymbols(Watchlist)}

\* --symbol on the command line
Arg(text) == [t |-> "str", text |-> text]

\* what one iteration of a main loop does towards the provider, in order: a
\* request passed to fetch_with_retry, or a time.sleep of so many seconds
Requested(api) == [e |-> "request", api |-> api]
Slept(secs) == [e |-> "sleep", secs |-> secs]

\* process_single_stock: time.sleep(REQUEST_DELAY) precedes the history, the
\* fina_indicator and the income request; the cashflow request follows
\* fina_indicator directly
UpdateTrail(up) ==
    (IF up.daily.calls > 0 THEN <<Requested("daily")>> ELSE <<>>)
    \o (IF up.hist.calls > 0 THEN <<Slept(REQUEST_DELAY), Requested("hist")>> ELSE <<>>)
    \o (IF up.fin.calls > 0 THEN <<Slept(REQUEST_DELAY), Requested("fin")>> ELSE <<>>)
    \o (IF up.cash.calls > 0 THEN <<Requested("cash")>> ELSE <<>>)
    \o (IF up.income.calls > 0 THEN <<Slept(REQUEST_DELAY), Requested("income")>>
        ELSE <<>>)

\* update_data.main, after the try/except of an iteration:
\* `if len(stocks) > 1: time.sleep(REQUEST_DELAY)`
RateLimitMutant(n) == <<>>

RateLimit(n) == IF n > 1 THEN <<Slept(REQUEST_DELAY)>> ELSE <<>>

\* backfill_history.main, after the try/except of an iteration
bf_RateLimit == <<Slept(REQUEST_DELAY)>>

\* nothing observed yet for a symbol
NoObs ==
    [ran |-> FALSE, requests |-> 0, failed_fetches |-> 0, quote |-> None,
     fault |-> FALSE, malformed |-> FALSE, raised |-> FALSE, returned |-> None,
     sent |-> {}, batch |-> {}, committed |-> FALSE, counted |-> "none",
     trail |-> <<>>]

Scripts == {"update_data", "backfill_history"}

Init ==
    /\ \E prior \in BOOLEAN :
          /\ daily_metrics = (IF prior THEN PriorDaily ELSE {})
          /\ quarterly_financials = (IF prior THEN PriorQuarterly ELSE {})
          /\ conn = NewConnection(daily_metrics, quarterly_financials)
    /\ stock_meta = Watchlist
    /\ script \in Scripts
    /\ args \in {[symbol |-> a] : a \in IF script = "update_data"
                                        THEN {None, Arg(SymA), Arg(SymC)} ELSE {None}}
    /\ stocks = <<>>
    /\ pos = 0
    /\ pc = "start"
    /\ success_count = 0
    /\ fail_count = 0
    /\ total_saved = 0
    /\ obs = [s \in Symbols |-> NoObs]
    /\ call = NoCall

\* backfill_history.main up to the for-loop: connect, select the active stocks
BackfillMainStart ==
    /\ pc = "start"
    /\ script = "backfill_history"
    /\ \E order \in Orderings(ActiveSymbols(stock_meta)) : stocks' = order
    /\ pc' = IF ActiveSymbols(stock_meta) = {} THEN "done" ELSE "loop"
    /\ conn' = [conn EXCEPT !.status = "intrans"]
    /\ total_saved' = 0
    /\ UNCHANGED <<daily_metrics, quarterly_financials, stock_meta, script, args, pos,
                   success_count, fail_count, obs, call>>

\* One iteration of the for-loop of backfill_history.main: backfill_stock_history
\* inside try/except, then the rate-limiting sleep.
BackfillMainStep ==
    /\ pc = "loop"
    /\ script = "backfill_history"
    /\ pos < Len(stocks)
    /\ \E fr \in SeriesAnswers :
       \E fault_at \in 0..(IF fr.returned THEN Len(fr.value.rows) ELSE 0) :
       \E res \in {backfill_stock_history(conn, daily_metrics, quarterly_financials,
                                           stocks[pos + 1], fr, fault_at)} :
        LET symbol == stocks[pos + 1]
            series == IF fr.returned THEN fr.value.rows ELSE <<>>
            malformed == \E i \in 1..Len(series) : MarketCapRaises(series[i])
        IN /\ conn' = res.conn
           /\ daily_metrics' = res.dm
           /\ quarterly_financials' = res.qf
           /\ total_saved' = IF res.raised THEN total_saved ELSE total_saved + res.saved
           /\ obs' = [obs EXCEPT ![symbol] =
                        [ran |-> TRUE,
                         requests |-> 1,
                         failed_fetches |-> IF fr.returned THEN 0 ELSE 1,
                         quote |-> None,
                         fault |-> fault_at > 0,
                         malformed |-> malformed,
                         raised |-> res.raised,
                         returned |-> IF res.raised THEN None ELSE Num(res.saved),
                         sent |-> res.sent,
                         batch |-> IF malformed THEN {} ELSE BackfillBatch(symbol, series),
                         committed |-> res.committed,
                         counted |-> "none",
                         trail |-> <<Requested("daily_basic")>> \o bf_RateLimit]]
    /\ pos' = pos + 1
    /\ UNCHANGED <<stock_meta, script, args, stocks, pc, success_count, fail_count, call>>

\* update_data.get_stock_info: the symbol if it is on the watchlist and active
get_stock_infoMutant(meta, symbol) ==
    IF symbol \in {m.symbol : m \in meta} THEN Arg(symbol) ELSE None

get_stock_info(meta, symbol) ==
    IF symbol \in ActiveSymbols(meta) THEN Arg(symbol) ELSE None

\* update_data.main up to the for-loop: connect, then either look up the one
\* symbol of --symbol (exit 1 when it is not active) or seed an empty watchlist
\* and select the active stocks
UpdateMainStart ==
    /\ pc = "start"
    /\ script = "update_data"
    /\ IF args.symbol # None
       THEN /\ stock_meta' = stock_meta
            /\ IF get_stock_info(stock_meta, args.symbol.text) = None
               THEN stocks' = <<>> /\ pc' = "exit"
               ELSE stocks' = <<args.symbol.text>> /\ pc' = "loop"
       ELSE /\ stock_meta' = seed_stock_pool(stock_meta)
            /\ \E order \in Orderings(ActiveSymbols(stock_meta')) : stocks' = order
            /\ pc' = IF ActiveSymbols(stock_meta') = {} THEN "done" ELSE "loop"
    /\ conn' = [conn EXCEPT !.status = "intrans"]
    /\ success_count' = 0
    /\ fail_count' = 0
    /\ UNCHANGED <<daily_metrics, quarterly_financials, script, args, pos, total_saved,
                   obs, call>>

\* `if process_single_stock(...): success_count += 1`, else and on an
\* exception fail_count += 1
CountsAsSuccessMutant(raised, returned) == ~raised

CountsAsSuccess(raised, returned) == ~raised /\ returned

\* nothing asked of the provider, nothing rejected by the server
NoUp ==
    [daily |-> NotAsked, hist |-> NotAsked, fin |-> NotAsked, cash |-> NotAsked,
     income |-> NotAsked, fault_daily |-> FALSE, fault_quarterly |-> FALSE]

RequestNames == {"daily", "hist", "fin", "cash", "income"}

\* The body of one iteration of the for-loop of update_data.main, with the
\* provider and the server behaving as `up` says: process_single_stock inside
\* try/except, the two counters, then the rate-limiting sleep.
Processed(up) ==
    \E res \in {process_single_stock(conn, daily_metrics, quarterly_financials,
                                     stocks[pos + 1], up, Today)} :
    LET symbol == stocks[pos + 1]
        ok == CountsAsSuccess(res.raised, res.returned)
    IN /\ conn' = res.conn
       /\ daily_metrics' = res.dm
       /\ quarterly_financials' = res.qf
       /\ success_count' = IF ok THEN success_count + 1 ELSE success_count
       /\ fail_count' = IF ok THEN fail_count ELSE fail_count + 1
       /\ obs' = [obs EXCEPT ![symbol] =
                    [ran |-> TRUE,
                     requests |-> Cardinality({r \in RequestNames : up[r].calls > 0}),
                     failed_fetches |->
                         Cardinality({r \in RequestNames :
                                         up[r].calls > 0 /\ ~up[r].returned}),
                     quote |-> fetch_daily_basic(up.daily),
                     fault |-> up.fault_daily \/ up.fault_quarterly,
                     malformed |-> /\ up.daily.returned
                                   /\ up.daily.value.rows # <<>>
                                   /\ fetch_daily_basic(up.daily) = None,
                     raised |-> res.raised,
                     returned |-> IF res.raised THEN None ELSE Bool(res.returned),
                     sent |-> res.sent,
                     batch |-> {},
                     committed |-> res.committed,
                     counted |-> IF ok THEN "success" ELSE "fail",
                     trail |-> UpdateTrail(up) \o RateLimit(Len(stocks))]]
       /\ pos' = pos + 1
       /\ UNCHANGED <<stock_meta, script, args, stocks, pc, total_saved, call>>

\* the quarterly statement is sent: the financials pass the validation gate
QuarterlyIsSent(financials) ==
    ~save_quarterly_financials(NewConnection({}, {}), {}, {}, SymA, financials, Today,
                               FALSE).skipped

\* One iteration of the for-loop of update_data.main. Each request is answered
\* or not, and the server takes or rejects each statement; only what the call
\* gets to ask is chosen.
UpdateMainStep ==
    /\ pc = "loop"
    /\ script = "update_data"
    /\ pos < Len(stocks)
    /\ \E daily \in QuoteAnswers :
        LET daily_data == fetch_daily_basic(daily)
            up1 == [NoUp EXCEPT !.daily = daily]
        IN IF daily_data = None \/ YieldGuard(daily_data)
           THEN Processed(up1)
           ELSE \E hist \in HistAnswers, fault_daily \in BOOLEAN :
                LET up2 == [up1 EXCEPT !.hist = hist, !.fault_daily = fault_daily]
                IN IF fault_daily
                   THEN Processed(up2)
                   ELSE \E fin \in FinAnswers :
                        LET up3 == [up2 EXCEPT !.fin = fin]
                        IN IF fetch_financial_indicators(fin, NotAsked) = None
                           THEN Processed(up3)
                           ELSE \E cash \in CashAnswers :
                                LET fetched == fetch_financial_indicators(fin, cash)
                                IN \E income \in (IF NeedsGrowth(fetched)
                                                  THEN IncomeAnswers
                                                  ELSE {NotAsked}) :
                                   \E fault_quarterly \in
                                        (IF QuarterlyIsSent(CompleteFinancials(fetched,
                                                fetch_growth_metrics(income), daily_data))
                                         THEN BOOLEAN ELSE {FALSE}) :
                                      Processed([up3 EXCEPT
                                          !.cash = cash, !.income = income,
                                          !.fault_quarterly = fault_quarterly])

\* after the for-loop: the summary is printed and the connection closed, which
\* discards a transaction still open
MainFinishMutant ==
    /\ pc = "loop"
    /\ pos <= Len(stocks)
    /\ pc' = "done"
    /\ conn' = [status |-> "closed", dm |-> daily_metrics, qf |-> quarterly_financials]
    /\ UNCHANGED <<daily_metrics, quarterly_financials, stock_meta, script, args, stocks,
                   pos, success_count, fail_count, total_saved, obs, call>>

MainFinish ==
    /\ pc = "loop"
    /\ pos = Len(stocks)
    /\ pc' = "done"
    /\ conn' = [status |-> "closed", dm |-> daily_metrics, qf |-> quarterly_financials]
    /\ UNCHANGED <<daily_metrics, quarterly_financials, stock_meta, script, args, stocks,
                   pos, success_count, fail_count, total_saved, obs, call>>

Next ==
    \/ BackfillMainStart
    \/ BackfillMainStep
    \/ UpdateMainStart
    \/ UpdateMainStep
    \/ MainFinish

Spec == Init /\ [][Next]_vars

-----------------------------------------------------------------------------
(* Claims on the runs *)

\* every request made for symbol s exhausted its retries
AllFetchesFailed(s) ==
    obs[s].ran /\ obs[s].requests > 0 /\ obs[s].failed_fetches = obs[s].requests

\* every request made for symbol s was answered, the quote carries a positive
\* dividend yield, and the server rejected no statement of s
SucceedsWithPositiveYield(s) ==
    /\ obs[s].ran
    /\ obs[s].failed_fetches = 0
    /\ ~obs[s].fault
    /\ obs[s].quote # None
    /\ obs[s].quote.dividend_yield_ttm # None
    /\ obs[s].quote.dividend_yield_ttm.v > 0

\* C1: fault isolation in update_data.main. In a finished run over two symbols
\* where every upstream request for A failed on all attempts and B's requests
\* succeeded with a positive dividend yield (B met no failure of its own), B's
\* daily_metrics row is committed, A is counted in fail_count and B in
\* success_count, and the two counters count exactly those symbols, in
\* whichever order A and B were processed.
C1_FaultIsolation ==
    (script = "update_data" /\ pc = "done") =>
        \A a, b \in Symbols :
            (a # b /\ AllFetchesFailed(a) /\ SucceedsWithPositiveYield(b)) =>
                /\ obs[b].sent # {}
                /\ obs[b].sent \subseteq daily_metrics
                /\ obs[a].counted = "fail"
                /\ obs[b].counted = "success"
                /\ fail_count = Cardinality({s \in Symbols : obs[s].counted = "fail"})
                /\ success_count = Cardinality({s \in Symbols : obs[s].counted = "success"})

\* a finished run in which the symbol processed first failed every request
\* and the symbol processed second succeeded and has its row committed
C1_Witness ==
    /\ script = "update_data"
    /\ pc = "done"
    /\ Len(stocks) = 2
    /\ AllFetchesFailed(stocks[1])
    /\ SucceedsWithPositiveYield(stocks[2])
    /\ obs[stocks[2]].sent # {}
    /\ obs[stocks[2]].sent \subseteq daily_metrics
    /\ fail_count = 1
    /\ success_count = 1

\* C2: in backfill_history.main a failure while processing one symbol (fetch
\* failure, malformed or empty response, a rejected store write) never keeps a
\* later symbol from having its records persisted: every symbol whose own
\* series was fetched, is well-formed and met no rejected write of its own has
\* its whole batch in the committed store once it has been processed.
C2_ContinueOnError ==
    script = "backfill_history" =>
        \A s \in Symbols :
            (obs[s].ran /\ obs[s].batch # {} /\ ~obs[s].fault)
                => obs[s].batch \subseteq daily_metrics

\* C3: the rows of one symbol's backfill batch are persisted all-or-nothing:
\* no row executed by a batch that failed is ever in the committed store, and
\* the batch of a symbol that committed stays in the committed store.
C3_BatchAtomicity ==
    script = "backfill_history" =>
        /\ \A s \in Symbols :
              obs[s].raised => \A row \in obs[s].sent : row \notin daily_metrics
        /\ \A s \in Symbols :
              obs[s].committed => obs[s].batch \subseteq daily_metrics

\* no two rows of the table share (symbol, trade_date)
UniqueKeys(table) ==
    \A r1, r2 \in table : DailyKey(r1) = DailyKey(r2) => r1 = r2

\* C7: in every state of a run of either pipeline the daily-metrics table
\* (committed, and as the open transaction sees it) holds at most one row per
\* (symbol, trade_date), and for every row a symbol wrote and committed the
\* table holds exactly one row of that key, equal to what was written last.
C7_UpsertKeyUnique ==
    /\ UniqueKeys(daily_metrics)
    /\ UniqueKeys(conn.dm)
    /\ \A s \in Symbols :
          obs[s].committed =>
              \A row \in obs[s].sent :
                  {r \in daily_metrics : DailyKey(r) = DailyKey(row)} = {row}

\* a key an earlier run had written is written again with other values: the
\* store, still holding rows of the earlier run, has the second write only
C7_Witness ==
    /\ \E q \in PriorDaily : q \in daily_metrics
    /\ \E s \in Symbols :
          /\ obs[s].committed
          /\ \E row \in obs[s].sent, p \in PriorDaily :
                /\ DailyKey(p) = DailyKey(row)
                /\ p # row
                /\ p \notin daily_metrics
                /\ row \in daily_metrics

\* the quote fetched for a processed symbol has no dividend yield, or one <= 0
GuardCase(o) ==
    /\ o.ran
    /\ o.quote # None
    /\ (o.quote.dividend_yield_ttm = None \/ o.quote.dividend_yield_ttm.v <= 0)

\* C9: when the quote fetched by process_single_stock has a missing or
\* non-positive dividend_yield_ttm, the call writes nothing: neither table
\* changes, committed or inside the open transaction, so every row stored for
\* that symbol is as it was before the call.
C9_YieldGuardNoWrite ==
    [][(script = "update_data" /\ pc = "loop" /\ pos' = pos + 1
            /\ GuardCase(obs'[stocks[pos + 1]]))
        => /\ daily_metrics' = daily_metrics
           /\ quarterly_financials' = quarterly_financials
           /\ conn'.dm = conn.dm
           /\ conn'.qf = conn.qf
           /\ obs'[stocks[pos + 1]].sent = {}
           /\ obs'[stocks[pos + 1]].returned = Bool(FALSE)]_vars

\* a symbol with stored rows was processed on a quote with yield 0, another
\* on a quote without a yield
C9_Witness ==
    /\ script = "update_data"
    /\ \E s1, s2 \in Symbols :
          /\ GuardCase(obs[s1])
          /\ obs[s1].quote.dividend_yield_ttm = Num(0)
          /\ GuardCase(obs[s2])
          /\ obs[s2].quote.dividend_yield_ttm = None
          /\ \E r \in daily_metrics : r.symbol = s1
          /\ \E r \in quarterly_financials : r.symbol = s1

-----------------------------------------------------------------------------
(* Specification SpecWriters: the two writers of quarterly_financials,        *)
(* update_data.save_quarterly_financials and                                  *)
(* fetch_financials.update_quarterly_financials, called directly up to        *)
(* MaxStoreCalls times on one connection.                                     *)

\* pd.to_datetime(report_date) takes the text: eight digits naming a month
\* and a day (the formats tried here are 'YYYYMMDD' and text that is no date)
IsSinaDate(text) ==
    /\ Len(text) = 8
    /\ \A i \in 1..8 : IsDigit(text[i])
    /\ ParseInt(Slice(text, 4, 6)).v \in 1..12
    /\ ParseInt(Slice(text, 6, 8)).v \in 1..31

\* fetch_sina_financials, the report period: none for an empty report date,
\* the period of the date when pd.to_datetime takes it, else the period of now
sina_report_period(report_date, now) ==
    IF report_date = <<>> THEN None
    ELSE IF IsSinaDate(report_date)
    THEN FormatPeriod(ParseInt(Slice(report_date, 0, 4)).v,
                      ((ParseInt(Slice(report_date, 4, 6)).v - 1) \div 3) + 1)
    ELSE FormatPeriod(now.y, ((now.m - 1) \div 3) + 1)

\* fetch_financials.update_quarterly_financials: False without data or
\* report_period, else one upsert and conn.commit(). data.get(key) of a key
\* the dict lacks is None.
update_quarterly_financials(c, dm, qf, symbol, data, today, fault) ==
    IF data = None
    THEN [conn |-> c, dm |-> dm, qf |-> qf, raised |-> FALSE, returned |-> FALSE]
    ELSE IF ~Truthy(data.report_period)
    THEN [conn |-> c, dm |-> dm, qf |-> qf, raised |-> FALSE, returned |-> FALSE]
    ELSE LET row == [symbol |-> symbol,
                     report_period |-> data.report_period,
                     publish_date |-> today,
                     free_cash_flow |-> data.free_cash_flow,
                     debt_to_asset_ratio |-> data.debt_to_asset_ratio,
                     dividend_payout_ratio |-> data.dividend_payout_ratio,
                     roe_ttm |-> data.roe_ttm,
                     gross_margin |-> data.gross_margin,
                     revenue_growth_yoy |-> data.revenue_growth_yoy,
                     net_profit_growth_yoy |-> data.net_profit_growth_yoy]
             e == ExecuteUpsertQuarterly(c, row, fault)
         IN IF e.raised
            THEN [conn |-> e.conn, dm |-> dm, qf |-> qf, raised |-> TRUE,
                  returned |-> FALSE]
            ELSE [conn |-> Commit(e.conn, dm, qf).conn,
                  dm |-> Commit(e.conn, dm, qf).dm,
                  qf |-> Commit(e.conn, dm, qf).qf,
                  raised |-> FALSE, returned |-> TRUE]

\* report dates of the latest Sina profit statement: year end 2019, first
\* quarter 2021, none, and text that is no date
SinaReportDates ==
    {<<"2", "0", "1", "9", "1", "2", "3", "1">>,
     <<"2", "0", "2", "1", "0", "3", "3", "1">>,
     <<>>,
     <<"-", "-">>}

\* the dict fetch_sina_financials returns for a statement of that date
SinaData(report_date, roe, now) ==
    [t |-> "dict",
     report_period |-> sina_report_period(report_date, now),
     free_cash_flow |-> Num(5000000), debt_to_asset_ratio |-> Num(40),
     dividend_payout_ratio |-> None, roe_ttm |-> roe, gross_margin |-> Num(30),
     revenue_growth_yoy |-> None, net_profit_growth_yoy |-> None]

CallUpdateQuarterlyFinancials ==
    /\ call.n < MaxStoreCalls
    /\ \E report_date \in SinaReportDates, roe \in {None, Num(15)}, fault \in BOOLEAN :
       \E data \in {None, SinaData(report_date, roe, Today)} :
       \E res \in {update_quarterly_financials(conn, daily_metrics, quarterly_financials,
                                              StoreSymbol, data, Today, fault)} :
           /\ conn' = res.conn
           /\ daily_metrics' = res.dm
           /\ quarterly_financials' = res.qf
           /\ call' = [fn |-> "update_quarterly_financials", n |-> call.n + 1,
                       symbol |-> StoreSymbol, data |-> data,
                       raised |-> res.raised, returned |-> res.returned]
           /\ UNCHANGED <<stock_meta, script, args, stocks, pos, pc, success_count,
                          fail_count, total_saved, obs>>

NextWriters ==
    \/ CallSaveQuarterlyFinancials
    \/ CallUpdateQuarterlyFinancials

SpecWriters == InitQuarterly /\ [][NextWriters]_vars

\* the year a stored report_period names
StoredYear(r) == ParseInt(BeforeQ(r.report_period.s)).v

\* C11: in every state reached by calls of the two writers of
\* quarterly_financials there is at most one row per (symbol, report_period)
\* and every stored row names a report year of 2020 or later.
C11_QuarterlyStoreInvariant ==
    /\ \A r1, r2 \in quarterly_financials :
          QuarterlyKey(r1) = QuarterlyKey(r2) => r1 = r2
    /\ \A r \in quarterly_financials : StoredYear(r) >= MinReportYear


-----------------------------------------------------------------------------
(* RankAsOf: the percentiles the backfill computes for the first trading day *)

\* a date as the number its digits spell, to compare two of them
DateOrdinal(date) == date.y * 10000 + date.m * 100 + date.d

\* the rows of a batch that no other row of the batch precedes
FirstRows(rows) ==
    {r \in rows : \A r2 \in rows :
        DateOrdinal(r2.trade_date) >= DateOrdinal(r.trade_date)}

\* C12: in a run of the backfill, the row sent for the chronologically first
\* trading day of a symbol's series carries neither a yield_percentile nor a
\* pe_percentile, whatever the values of that day.
C12_RankAsOfFirstRowNull ==
    script = "backfill_history" =>
        \A s \in Symbols : \A r \in FirstRows(obs[s].sent) :
            r.yield_percentile = None /\ r.pe_percentile = None


-----------------------------------------------------------------------------
(* SpecRank: direct calls of the four percentile functions *)

\* the longest history a direct call is given
MaxHist == 3

\* values of a history column, in hundredths: missing, negative, zero, two
\* ordinary ones, and the two outlier limits (100 for a yield, 1000 for a P/E;
\* 100 is an ordinary P/E and 1000 an outlying yield)
HistoryValues ==
    {NaN, Num(0 - 100), Num(0), Num(300), Num(500), Num(YieldOutlier), Num(PeOutlier)}

\* the current value: absent, negative, zero, ordinary, or beyond the limits
CurrentValues ==
    {None, Num(0 - 100), Num(0), Num(300), Num(400), Num(YieldOutlier), Num(PeOutlier + 100)}

Histories == UNION {[1..n -> HistoryValues] : n \in 0..MaxHist}

\* the historical frame of the updater with one column filled
HistoryFrame(col, values) ==
    [i \in 1..Len(values) |->
        [trade_date |-> RawDate(i),
         dv_ttm |-> IF col = "dv_ttm" THEN values[i] ELSE NaN,
         pe_ttm |-> IF col = "pe_ttm" THEN values[i] ELSE NaN]]

RankCall(fn, metric, current, history, result) ==
    [fn |-> fn, n |-> 1, metric |-> metric, current |-> current,
     history |-> history, result |-> result]

RankUnchanged ==
    UNCHANGED <<daily_metrics, quarterly_financials, stock_meta, conn, script,
                args, stocks, pos, pc, success_count, fail_count, total_saved, obs>>

CallCalculateYieldPercentile ==
    /\ call = NoCall
    /\ \E current \in CurrentValues, history \in Histories :
          call' = RankCall("update_data.calculate_yield_percentile", "yield", current,
                           history,
                           calculate_yield_percentile(current,
                                                      HistoryFrame("dv_ttm", history)))
    /\ RankUnchanged

CallCalculatePePercentile ==
    /\ call = NoCall
    /\ \E current \in CurrentValues, history \in Histories :
          call' = RankCall("update_data.calculate_pe_percentile", "pe", current,
                           history,
                           calculate_pe_percentile(current,
                                                   HistoryFrame("pe_ttm", history)))
    /\ RankUnchanged

CallBfCalculateYieldPercentile ==
    /\ call = NoCall
    /\ \E current \in CurrentValues, history \in Histories :
          call' = RankCall("backfill_history.calculate_yield_percentile", "yield",
                           current, history,
                           bf_calculate_yield_percentile(current, history))
    /\ RankUnchanged

CallBfCalculatePePercentile ==
    /\ call = NoCall
    /\ \E current \in CurrentValues, history \in Histories :
          call' = RankCall("backfill_history.calculate_pe_percentile", "pe",
                           current, history,
                           bf_calculate_pe_percentile(current, history))
    /\ RankUnchanged

NextRank ==
    \/ CallCalculateYieldPercentile
    \/ CallCalculatePePercentile
    \/ CallBfCalculateYieldPercentile
    \/ CallBfCalculatePePercentile

SpecRank == InitRetry /\ [][NextRank]_vars

(* Claims on the percentile functions *)

IsRankCall == call.fn # "none" /\ call.metric \in {"yield", "pe"}

\* the upper limit of the metric's range, in hundredths: 100 or 1000
RangeLimit(metric) == IF metric = "yield" THEN 100 * 100 ELSE 1000 * 100

\* the history values that survive: present and strictly inside the range
KeptHistory(metric, history) ==
    SelectSeq(history, LAMBDA x : x # NaN /\ x # None /\ 0 < x.v /\ x.v < RangeLimit(metric))

\* C13: the result of calculate_yield_percentile / calculate_pe_percentile is
\* null or a number in [0, 100]; it is a number in [0, 100] whenever the current
\* value is above 0 and the filtered history is not empty, and it is null whenever
\* the current value is missing or not above 0 or the filtered history is empty.
C13_RankNullOrInRange ==
    IsRankCall =>
        LET positive == call.current # None /\ call.current.v > 0
            kept == KeptHistory(call.metric, call.history)
            inRange == IsNum(call.result) /\ 0 <= call.result.v
                       /\ call.result.v <= 100 * 100
        IN /\ call.result = None \/ inRange
           /\ (positive /\ kept # <<>>) => inRange
           /\ (~positive \/ kept = <<>>) => call.result = None

\* a positive current value ranked strictly inside a history that also holds
\* dropped values
C13_Witness ==
    /\ IsRankCall
    /\ call.current = Num(400)
    /\ Len(KeptHistory(call.metric, call.history)) = 2
    /\ Len(call.history) = 3
    /\ call.result = Num(5000)


\* the hundredth nearest to num / den * 100
NearestHundredth(num, den) == (2 * num * 100 * 100 + den) \div (2 * den)

\* the reference ranking: missing values dropped, history kept strictly inside
\* the range of the metric, count(kept <= current) / count(kept) * 100 rounded
\* to two decimals; the current value is compared as it is
ReferenceRank(metric, current, history) ==
    LET kept == KeptHistory(metric, history)
        atMost == SelectSeq(kept, LAMBDA x : x.v <= current.v)
    IN IF kept = <<>> THEN None
       ELSE Num(NearestHundredth(Len(atMost), Len(kept)))

\* C14: for a current value above 0, calculate_yield_percentile and
\* calculate_pe_percentile return what the reference ranking returns: history
\* values that are missing or not strictly inside (0, 100) for a yield,
\* (0, 1000) for a P/E, count neither in the numerator nor in the denominator,
\* the ratio is rounded to two decimals, and the current value is not
\* range-filtered.
C14_RankEqualsReference ==
    (IsRankCall /\ call.current # None /\ call.current.v > 0) =>
        call.result = ReferenceRank(call.metric, call.current, call.history)

\* a current value beyond the range ranked against a history holding zero, the
\* limit of the range and one ordinary value
C14_Witness ==
    /\ IsRankCall
    /\ call.current = Num(PeOutlier + 100)
    /\ \E i, j, k \in 1..Len(call.history) :
          /\ call.history[i] = Num(0)
          /\ call.history[j] = Num(RangeLimit(call.metric))
          /\ call.history[k] = Num(300)
    /\ call.result = Num(100 * 100)


-----------------------------------------------------------------------------
(* SpecSmooth: direct calls of the three copies of fetch_historical_daily_basic *)

\* the longest series a direct call is answered with
MaxSeries == 5
\* the longest series that is answered in every order of its rows; a longer one
\* comes oldest first or newest first
MaxShuffle == 3

\* raw values of a tracked column, in hundredths: missing, zero, 3 and 5
SmoothValues == {NaN, Num(0), Num(300), Num(500)}

\* what the other tracked column holds meanwhile: never a gap, or a zero on
\* every other day
SmoothProfiles(n) ==
    {[i \in 1..n |-> Num(800)],
     [i \in 1..n |-> IF i % 2 = 1 THEN Num(0) ELSE Num(600 + 100 * i)]}

SmoothRow(i, dv, pe) ==
    [trade_date |-> RawDate(i), close |-> Num(1000), pe_ttm |-> pe, pb |-> Num(150),
     dv_ttm |-> dv, total_mv |-> Num(2000000)]

\* the orders in which the provider may list n rows
RowOrders(n) ==
    IF n <= MaxShuffle THEN Orderings(1..n)
    ELSE {[i \in 1..n |-> i], [i \in 1..n |-> n + 1 - i]}

\* a frame pro.daily_basic may return: n trading days, one tracked column free
\* and the other following a profile, the rows in the given order
FrameOf(n, free, other, freeIsYield, order) ==
    [i \in 1..n |->
        IF freeIsYield
        THEN SmoothRow(order[i], free[order[i]], other[order[i]])
        ELSE SmoothRow(order[i], other[order[i]], free[order[i]])]

SmoothCall(fn, raw, out) == [fn |-> fn, n |-> 1, raw |-> raw, out |-> out]

CallFetchHistoricalDailyBasic ==
    /\ call = NoCall
    /\ \E n \in 1..MaxSeries :
       \E free \in [1..n -> SmoothValues], other \in SmoothProfiles(n),
          freeIsYield \in BOOLEAN, order \in RowOrders(n) :
       \E raw \in {FrameOf(n, free, other, freeIsYield, order)} :
          call' = SmoothCall("update_data.fetch_historical_daily_basic", raw,
                             fetch_historical_daily_basic(Request(0, DataFrame(raw))).rows)
    /\ RankUnchanged

CallBfFetchHistoricalDailyBasic ==
    /\ call = NoCall
    /\ \E n \in 1..MaxSeries :
       \E free \in [1..n -> SmoothValues], other \in SmoothProfiles(n),
          freeIsYield \in BOOLEAN, order \in RowOrders(n) :
       \E raw \in {FrameOf(n, free, other, freeIsYield, order)} :
          call' = SmoothCall("backfill_history.fetch_historical_daily_basic", raw,
                             bf_fetch_historical_daily_basic(Request(0, DataFrame(raw))).rows)
    /\ RankUnchanged

CallSsFetchHistoricalDailyBasic ==
    /\ call = NoCall
    /\ \E n \in 1..MaxSeries :
       \E free \in [1..n -> SmoothValues], other \in SmoothProfiles(n),
          freeIsYield \in BOOLEAN, order \in RowOrders(n) :
       \E raw \in {FrameOf(n, free, other, freeIsYield, order)} :
          call' = SmoothCall("backfill_single_stock.fetch_historical_daily_basic", raw,
                             ss_fetch_historical_daily_basic(Request(0, DataFrame(raw))).rows)
    /\ RankUnchanged

NextSmooth ==
    \/ CallFetchHistoricalDailyBasic
    \/ CallBfFetchHistoricalDailyBasic
    \/ CallSsFetchHistoricalDailyBasic

SpecSmooth == InitRetry /\ [][NextSmooth]_vars

(* Claims on the smoother *)

IsSmoothCall ==
    call.fn \in {"update_data.fetch_historical_daily_basic",
                 "backfill_history.fetch_historical_daily_basic",
                 "backfill_single_stock.fetch_historical_daily_basic"}

TrackedColumns == {"dv_ttm", "pe_ttm"}

\* the rows the provider returned, by ascending date: the i-th trading day is
\* the row dated RawDate(i)
ByAscendingDate(raw) ==
    [i \in 1..Len(raw) |->
        raw[CHOOSE k \in 1..Len(raw) : raw[k].trade_date = RawDate(i)]]

\* The example as the specification words it: raw values [null, 0, 5, 0, 3] by
\* ascending date come out as [null, 5, 5, 5, 3].
C15_SmoothingExampleAsWorded ==
    IsSmoothCall =>
        \A col \in TrackedColumns :
            Column(ByAscendingDate(call.raw), col)
                    = <<NaN, Num(0), Num(500), Num(0), Num(300)>>
                => Column(call.out, col)
                    = <<NaN, Num(500), Num(500), Num(500), Num(300)>>

\* C15: a tracked column whose raw values by ascending date are
\* [null, 0, 5, 0, 3] comes out of the smoother as [null, null, 5, 5, 3]: the
\* zero of the second day has no earlier valid value and stays missing.
C15_SmoothingExample ==
    IsSmoothCall =>
        \A col \in TrackedColumns :
            Column(ByAscendingDate(call.raw), col)
                    = <<NaN, Num(0), Num(500), Num(0), Num(300)>>
                => Column(call.out, col)
                    = <<NaN, NaN, Num(500), Num(500), Num(300)>>

\* the example series, listed newest first, has been smoothed
C15_Witness ==
    /\ IsSmoothCall
    /\ Column(call.raw, "dv_ttm") = <<Num(300), Num(0), Num(500), Num(0), NaN>>
    /\ call.raw[1].trade_date = RawDate(5)
    /\ Column(call.out, "dv_ttm") = <<NaN, NaN, Num(500), Num(500), Num(300)>>


\* a raw value that needs no filling: present and not zero
RawValid(x) == x # NaN /\ x # None /\ x # Num(0)

\* what forward filling without lookahead leaves on day d of a column: the raw
\* value of the day if it is valid, else the raw value of the latest earlier
\* day that has a valid one, else missing
FilledFromEarlier(sorted, col, d) ==
    IF RawValid(sorted[d][col]) THEN sorted[d][col]
    ELSE LET earlier == {j \in 1..(d - 1) : RawValid(sorted[j][col])}
         IN IF earlier = {} THEN NaN
            ELSE sorted[CHOOSE j \in earlier : \A k \in earlier : k <= j][col]

\* C16: for dv_ttm and pe_ttm independently and for every date d, the smoothed
\* value at d is the raw value at d when that is present and not zero, otherwise
\* the raw value of the latest earlier date with a present non-zero value, and
\* missing when there is no such date; so it is a function of the raw values up to
\* d alone, never of a later one.
C16_ForwardFillNoLookahead ==
    IsSmoothCall =>
        \E sorted \in {ByAscendingDate(call.raw)} :
            /\ Len(call.out) = Len(sorted)
            /\ \A col \in TrackedColumns : \A d \in 1..Len(sorted) :
                  call.out[d][col] = FilledFromEarlier(sorted, col, d)

\* a yield column with a leading zero that stays missing and a later gap filled
\* from the day before, although a different value follows, while the P/E column
\* has gaps of its own
C16_Witness ==
    /\ IsSmoothCall
    /\ Column(ByAscendingDate(call.raw), "dv_ttm") = <<Num(0), Num(500), NaN, Num(300)>>
    /\ Column(call.out, "dv_ttm") = <<NaN, Num(500), Num(500), Num(300)>>
    /\ Column(ByAscendingDate(call.raw), "pe_ttm") = <<Num(0), Num(800), Num(0), Num(1000)>>
    /\ Column(call.out, "pe_ttm") = <<NaN, Num(800), Num(800), Num(1000)>>

\* the copy of the smoother that call.fn names, applied to a frame
SmoothOut(fn, raw) ==
    IF fn = "update_data.fetch_historical_daily_basic"
    THEN fetch_historical_daily_basic(Request(0, DataFrame(raw))).rows
    ELSE IF fn = "backfill_history.fetch_historical_daily_basic"
    THEN bf_fetch_historical_daily_basic(Request(0, DataFrame(raw))).rows
    ELSE ss_fetch_historical_daily_basic(Request(0, DataFrame(raw))).rows

\* C17: whatever the order in which the rows (of distinct trade dates) arrive,
\* the smoother returns the date-ascending series it returns for the same rows
\* given in date order.
C17_SmootherOrderIndependent ==
    IsSmoothCall =>
        /\ call.out = SmoothOut(call.fn, ByAscendingDate(call.raw))
        /\ \A d \in 1..(Len(call.out) - 1) :
              call.out[d].trade_date < call.out[d + 1].trade_date

\* three rows given in the order second, third, first, the first one holding
\* the only valid yield
C17_Witness ==
    /\ IsSmoothCall
    /\ Len(call.raw) = 3
    /\ call.raw[1].trade_date = RawDate(2)
    /\ call.raw[2].trade_date = RawDate(3)
    /\ call.raw[3].trade_date = RawDate(1)
    /\ Column(call.raw, "dv_ttm") = <<Num(0), NaN, Num(500)>>
    /\ Column(call.out, "dv_ttm") = <<Num(500), Num(500), Num(500)>>


-----------------------------------------------------------------------------
(* ExchangeCodeMapper: the three copies of convert_symbol_to_ts_code *)

\* str.startswith(c) for a one-character prefix; a str is the sequence of its
\* characters
StartsWith(text, c) == Len(text) >= 1 /\ text[1] = c

\* f"{symbol}.SH" and f"{symbol}.SZ"
WithSH(symbol) == symbol \o <<".", "S", "H">>
WithSZ(symbol) == symbol \o <<".", "S", "Z">>

\* update_data.convert_symbol_to_ts_code
convert_symbol_to_ts_codeMutant(symbol) ==
    IF StartsWith(symbol, "6") THEN WithSH(symbol)
    ELSE IF StartsWith(symbol, "0") THEN WithSZ(symbol)
    ELSE WithSH(symbol)

convert_symbol_to_ts_code(symbol) ==
    IF StartsWith(symbol, "6") THEN WithSH(symbol)
    ELSE IF StartsWith(symbol, "0") \/ StartsWith(symbol, "3") THEN WithSZ(symbol)
    ELSE WithSH(symbol)

\* backfill_history.convert_symbol_to_ts_code
bf_convert_symbol_to_ts_code(symbol) ==
    IF StartsWith(symbol, "6") THEN WithSH(symbol)
    ELSE IF StartsWith(symbol, "0") \/ StartsWith(symbol, "3") THEN WithSZ(symbol)
    ELSE WithSH(symbol)

\* backfill_single_stock.convert_symbol_to_ts_code
ss_convert_symbol_to_ts_code(symbol) ==
    IF StartsWith(symbol, "6") THEN WithSH(symbol)
    ELSE IF StartsWith(symbol, "0") \/ StartsWith(symbol, "3") THEN WithSZ(symbol)
    ELSE WithSH(symbol)

\* the longest ticker a direct call is given
MaxTicker == 3

\* characters a ticker is made of: the three prefixes the code tests, another
\* digit, a letter and a dot
TickerChars == {"6", "0", "3", "9", "A", "."}

Tickers == UNION {[1..n -> TickerChars] : n \in 0..MaxTicker}

MapperCall(fn, symbol, code) == [fn |-> fn, n |-> 1, symbol |-> symbol, code |-> code]

CallConvertSymbolToTsCode ==
    /\ call = NoCall
    /\ \E symbol \in Tickers :
          call' = MapperCall("update_data.convert_symbol_to_ts_code", symbol,
                             convert_symbol_to_ts_code(symbol))
    /\ RankUnchanged

CallBfConvertSymbolToTsCode ==
    /\ call = NoCall
    /\ \E symbol \in Tickers :
          call' = MapperCall("backfill_history.convert_symbol_to_ts_code", symbol,
                             bf_convert_symbol_to_ts_code(symbol))
    /\ RankUnchanged

CallSsConvertSymbolToTsCode ==
    /\ call = NoCall
    /\ \E symbol \in Tickers :
          call' = MapperCall("backfill_single_stock.convert_symbol_to_ts_code", symbol,
                             ss_convert_symbol_to_ts_code(symbol))
    /\ RankUnchanged

NextMapper ==
    \/ CallConvertSymbolToTsCode
    \/ CallBfConvertSymbolToTsCode
    \/ CallSsConvertSymbolToTsCode

SpecMapper == InitRetry /\ [][NextMapper]_vars

IsMapperCall ==
    call.fn \in {"update_data.convert_symbol_to_ts_code",
                 "backfill_history.convert_symbol_to_ts_code",
                 "backfill_single_stock.convert_symbol_to_ts_code"}

\* the suffix the prefix rule assigns to a ticker
SuffixByRule(symbol) ==
    IF symbol = <<>> THEN <<".", "S", "H">>
    ELSE IF Head(symbol) = "6" THEN <<".", "S", "H">>
    ELSE IF Head(symbol) \in {"0", "3"} THEN <<".", "S", "Z">>
    ELSE <<".", "S", "H">>

\* C18: for every ticker string, the empty one included, each copy of
\* convert_symbol_to_ts_code returns the ticker followed by '.SH' when it starts
\* with '6', by '.SZ' when it starts with '0' or '3', and by '.SH' otherwise; and
\* the three copies return the same code.
C18_MapperTotalPrefixRule ==
    IsMapperCall =>
        /\ call.code = call.symbol \o SuffixByRule(call.symbol)
        /\ convert_symbol_to_ts_code(call.symbol) = call.code
        /\ bf_convert_symbol_to_ts_code(call.symbol) = call.code
        /\ ss_convert_symbol_to_ts_code(call.symbol) = call.code

\* a ChiNext ticker has been mapped to Shenzhen
C18_Witness ==
    /\ IsMapperCall
    /\ call.symbol = <<"3", "0", "0">>
    /\ call.code = <<"3", "0", "0", ".", "S", "Z">>


-----------------------------------------------------------------------------
(* backfill_single_stock: one symbol, prepared as a batch and sent at once *)

\* np.sum(kept <cmp> current) / len(kept) * 100 as the DECIMAL(5, 2) column keeps
\* the float: to the nearest hundredth
ss_Percent(count, len) == Num((2 * count * 100 * 100 + len) \div (2 * len))

\* the values of column col in df.iloc[:idx + 1] that are present and strictly
\* between 0 and `outlier`
ss_Kept(df, idx, col, outlier) ==
    {i \in 1..idx : notna(df[i][col]) /\ df[i][col].v > 0 /\ df[i][col].v < outlier}

\* backfill_single_stock.calculate_percentiles: (yield_percentile, pe_percentile)
\* of the row at position idx; the yield counts the history at or below the
\* current value, the P/E the history at or above it
calculate_percentiles(df, idx) ==
    [yield_percentile |->
         IF notna(df[idx].dv_ttm) /\ ss_Kept(df, idx, "dv_ttm", YieldOutlier) # {}
         THEN ss_Percent(Cardinality({i \in ss_Kept(df, idx, "dv_ttm", YieldOutlier) :
                                         df[i].dv_ttm.v <= df[idx].dv_ttm.v}),
                         Cardinality(ss_Kept(df, idx, "dv_ttm", YieldOutlier)))
         ELSE None,
     pe_percentile |->
         IF notna(df[idx].pe_ttm) /\ ss_Kept(df, idx, "pe_ttm", PeOutlier) # {}
         THEN ss_Percent(Cardinality({i \in ss_Kept(df, idx, "pe_ttm", PeOutlier) :
                                         df[i].pe_ttm.v >= df[idx].pe_ttm.v}),
                         Cardinality(ss_Kept(df, idx, "pe_ttm", PeOutlier)))
         ELSE None]

\* the tuple backfill_single_stock appends to batch_data for the row at idx
ss_BatchRow(symbol, df, idx) ==
    [symbol |-> symbol,
     trade_date |-> FormatTradeDate(df[idx].trade_date),
     close_price |-> bf_to_python_type(df[idx].close),
     market_cap |-> IF notna(df[idx].total_mv)
                    THEN Num(bf_to_python_type(df[idx].total_mv).v \div 10000)
                    ELSE None,
     pe_ttm |-> bf_to_python_type(df[idx].pe_ttm),
     pb_ttm |-> bf_to_python_type(df[idx].pb),
     dividend_yield_ttm |-> bf_to_python_type(df[idx].dv_ttm),
     pe_percentile |-> bf_to_python_type(calculate_percentiles(df, idx).pe_percentile),
     pb_percentile |-> None,
     yield_percentile |-> bf_to_python_type(calculate_percentiles(df, idx).yield_percentile)]

\* execute_batch(cur, upsert_sql, batch_data) from statement i on; fault_at: the
\* statement the server rejects (0: none)
RECURSIVE ss_ExecuteBatch(_, _, _, _, _)
ss_ExecuteBatch(c, batch_data, i, fault_at, sent) ==
    IF i > Len(batch_data)
    THEN [conn |-> c, raised |-> FALSE, sent |-> sent]
    ELSE LET e == ExecuteUpsertDaily(c, batch_data[i], fault_at = i)
         IN IF e.raised
            THEN [conn |-> e.conn, raised |-> TRUE, sent |-> sent]
            ELSE ss_ExecuteBatch(e.conn, batch_data, i + 1, fault_at,
                                 sent \cup {batch_data[i]})

\* backfill_single_stock.backfill_single_stock, given what the upstream request
\* did: the whole batch is prepared (a malformed total_mv raises there), then
\* sent, then committed
backfill_single_stock(c, dm, qf, symbol, fr, fault_at) ==
    LET df == ss_fetch_historical_daily_basic(fr).rows
    IN IF df = <<>>
       THEN [conn |-> c, dm |-> dm, qf |-> qf, raised |-> FALSE, saved |-> 0,
             sent |-> {}, committed |-> FALSE]
       ELSE IF \E i \in 1..Len(df) : MarketCapRaises(df[i])
       THEN [conn |-> c, dm |-> dm, qf |-> qf, raised |-> TRUE, saved |-> 0,
             sent |-> {}, committed |-> FALSE]
       ELSE LET sending == ss_ExecuteBatch(c, [i \in 1..Len(df) |-> ss_BatchRow(symbol, df, i)],
                                           1, fault_at, {})
            IN IF sending.raised
               THEN [conn |-> sending.conn, dm |-> dm, qf |-> qf, raised |-> TRUE,
                     saved |-> 0, sent |-> sending.sent, committed |-> FALSE]
               ELSE [conn |-> Commit(sending.conn, dm, qf).conn,
                     dm |-> Commit(sending.conn, dm, qf).dm,
                     qf |-> Commit(sending.conn, dm, qf).qf,
                     raised |-> FALSE, saved |-> Len(df), sent |-> sending.sent,
                     committed |-> TRUE]

-----------------------------------------------------------------------------
(* SpecWatchlist: the three scripts on every kind of watchlist *)

\* a symbol no watchlist holds
SymD == "600519"

\* the watchlists a run may find: none at all, a single inactive symbol, a
\* single active one, and two active symbols beside an inactive one
Watchlists ==
    {{},
     {[symbol |-> SymC, is_active |-> FALSE]},
     {[symbol |-> SymA, is_active |-> TRUE]},
     Watchlist}

WatchlistScripts == {"update_data", "backfill_history", "backfill_single_stock"}

\* --symbol is optional for update_data, required for backfill_single_stock and
\* unknown to backfill_history
SymbolArgs(s) ==
    IF s = "update_data" THEN {None, Arg(SymA), Arg(SymC), Arg(SymD)}
    ELSE IF s = "backfill_single_stock" THEN {Arg(SymA), Arg(SymC), Arg(SymD)}
    ELSE {None}

\* the stores are empty: daily_metrics.symbol and quarterly_financials.symbol
\* reference stock_meta, so no row predates its watchlist entry
InitWatchlist ==
    /\ daily_metrics = {}
    /\ quarterly_financials = {}
    /\ conn = NewConnection({}, {})
    /\ stock_meta \in Watchlists
    /\ script \in WatchlistScripts
    /\ args \in {[symbol |-> a] : a \in SymbolArgs(script)}
    /\ stocks = <<>>
    /\ pos = 0
    /\ pc = "start"
    /\ success_count = 0
    /\ fail_count = 0
    /\ total_saved = 0
    /\ obs = [s \in Symbols \cup {SymD} |-> NoObs]
    /\ call = NoCall

\* backfill_single_stock.main up to the call of backfill_single_stock: connect,
\* look the symbol up among the active stocks, sys.exit(1) when it is not there
SingleMainStart ==
    /\ pc = "start"
    /\ script = "backfill_single_stock"
    /\ IF args.symbol.text \in ActiveSymbols(stock_meta)
       THEN stocks' = <<args.symbol.text>> /\ pc' = "loop"
       ELSE stocks' = <<>> /\ pc' = "exit"
    /\ conn' = [conn EXCEPT !.status = "intrans"]
    /\ UNCHANGED <<daily_metrics, quarterly_financials, stock_meta, script, args, pos,
                   success_count, fail_count, total_saved, obs, call>>

\* backfill_single_stock.main: the call of backfill_single_stock inside
\* try/except; an exception ends the run with sys.exit(1)
SingleMainStep ==
    /\ pc = "loop"
    /\ script = "backfill_single_stock"
    /\ pos < Len(stocks)
    /\ \E fr \in SeriesAnswers :
       \E fault_at \in 0..(IF fr.returned THEN Len(fr.value.rows) ELSE 0) :
       \E res \in {backfill_single_stock(conn, daily_metrics, quarterly_financials,
                                          stocks[pos + 1], fr, fault_at)} :
        LET symbol == stocks[pos + 1]
            series == IF fr.returned THEN fr.value.rows ELSE <<>>
            malformed == \E i \in 1..Len(series) : MarketCapRaises(series[i])
        IN /\ conn' = res.conn
           /\ daily_metrics' = res.dm
           /\ quarterly_financials' = res.qf
           /\ total_saved' = IF res.raised THEN total_saved ELSE total_saved + res.saved
           /\ pc' = IF res.raised THEN "exit" ELSE pc
           /\ obs' = [obs EXCEPT ![symbol] =
                        [ran |-> TRUE,
                         requests |-> 1,
                         failed_fetches |-> IF fr.returned THEN 0 ELSE 1,
                         quote |-> None,
                         fault |-> fault_at > 0,
                         malformed |-> malformed,
                         raised |-> res.raised,
                         returned |-> IF res.raised THEN None ELSE Num(res.saved),
                         sent |-> res.sent,
                         batch |-> {},
                         committed |-> res.committed,
                         counted |-> "none",
                         trail |-> <<Requested("daily_basic")>>]]
    /\ pos' = pos + 1
    /\ UNCHANGED <<stock_meta, script, args, stocks, success_count, fail_count, call>>

\* the provider answered every request of the symbol at the first attempt with
\* well-formed rows, and the server took every statement
Calm(o) == o.failed_fetches = 0 /\ ~o.fault /\ ~o.malformed

\* an iteration of update_data.main while provider and server behave and the
\* symbol needs every one of the five requests
CalmUpdateMainStep ==
    /\ UpdateMainStep
    /\ Calm(obs'[stocks[pos + 1]])
    /\ obs'[stocks[pos + 1]].requests = Cardinality(RequestNames)

\* an iteration of backfill_history.main while provider and server behave
CalmBackfillMainStep == BackfillMainStep /\ Calm(obs'[stocks[pos + 1]])

NextWatchlist ==
    \/ UpdateMainStart
    \/ CalmUpdateMainStep
    \/ BackfillMainStart
    \/ CalmBackfillMainStep
    \/ SingleMainStart
    \/ SingleMainStep
    \/ MainFinish

SpecWatchlist == InitWatchlist /\ [][NextWatchlist]_vars


(* Claims on the watchlist *)

WatchedSymbols == Symbols \cup {SymD}

\* an upstream request was issued for s or a statement sent for it
Touched(s) == obs[s].ran \/ obs[s].requests > 0 \/ obs[s].sent # {}

\* the symbols that have a row in a store or in the open transaction
StoredSymbols ==
    {r.symbol : r \in daily_metrics \cup conn.dm}
        \cup {r.symbol : r \in quarterly_financials \cup conn.qf}

\* the run was given --symbol, and the symbol is not an active watchlist entry
ScopedToInactive ==
    args.symbol # None /\ args.symbol.text \notin ActiveSymbols(stock_meta)

\* C19: in a run of update_data, backfill_history or backfill_single_stock, every
\* symbol for which a request is issued or a row written is one the run selected
\* from stock_meta with is_active = true; a run scoped by --symbol to a symbol
\* that is absent or inactive issues no request, writes nothing and ends in
\* sys.exit(1).
C19_OnlyActiveSymbolsProcessed ==
    /\ \A s \in WatchedSymbols :
          Touched(s) => /\ s \in ActiveSymbols(stock_meta)
                        /\ \E i \in 1..Len(stocks) : stocks[i] = s
    /\ StoredSymbols \subseteq ActiveSymbols(stock_meta)
    /\ (ScopedToInactive /\ pc # "start") =>
          /\ pc = "exit"
          /\ \A s \in WatchedSymbols : ~Touched(s)
          /\ StoredSymbols = {}

\* the updater, scoped to the inactive symbol of a watchlist that has active
\* ones, has exited
C19_Witness ==
    /\ script = "update_data"
    /\ args.symbol = Arg(SymC)
    /\ stock_meta = Watchlist
    /\ pc = "exit"
    /\ \A s \in WatchedSymbols : ~Touched(s)

\* C20: no step of a run of update_data (scoped or not) or of backfill_history
\* inserts, updates or deletes a stock_meta row, whatever watchlist the run
\* finds, the empty one included.
C20_WatchlistReadOnly ==
    [][(script \in {"update_data", "backfill_history"}) => (stock_meta' = stock_meta)]_vars


-----------------------------------------------------------------------------
(* Claims on the percentiles the backfill scripts store *)

BackfillScripts == {"backfill_history", "backfill_single_stock"}

\* the rows of a batch dated no later than row r, oldest first
RowsUpTo(rows, r) ==
    LET upTo == {x \in rows : DateOrdinal(x.trade_date) <= DateOrdinal(r.trade_date)}
    IN [k \in 1..Cardinality(upTo) |->
           CHOOSE x \in upTo :
               Cardinality({y \in upTo : DateOrdinal(y.trade_date)
                                            < DateOrdinal(x.trade_date)}) = k - 1]

\* RankAgainstAll of the value row r stores in column col against the values the
\* batch stores in that column up to r's date
RankOnPrefix(metric, col, rows, r) ==
    IF r[col] = None THEN None
    ELSE IF r[col].v <= 0 THEN None
    ELSE ReferenceRank(metric, r[col], Column(RowsUpTo(rows, r), col))

\* C21: in backfill_history and in backfill_single_stock, the yield_percentile
\* and the pe_percentile sent for a date equal RankAgainstAll of that date's
\* smoothed value against the smoothed values up to and including that date:
\* count(history <= current) over the history inside (0, 100) resp. (0, 1000),
\* null for a current value that is missing or not above 0, two decimals.
C21_RankAsOfIsRankOnPrefix ==
    script \in BackfillScripts =>
        \A s \in WatchedSymbols : \A r \in obs[s].sent :
            /\ r.yield_percentile
                   = RankOnPrefix("yield", "dividend_yield_ttm", obs[s].sent, r)
            /\ r.pe_percentile = RankOnPrefix("pe", "pe_ttm", obs[s].sent, r)


-----------------------------------------------------------------------------
(* SpecAsOf: a backfill run twice, on two series that agree up to a date *)

\* the longest series of such a pair, before a day is added to it
MaxAsOf == 3

\* the P/E quoted on a day, given the yield quoted that day: both missing, both
\* zero, or the P/E falling as the yield rises
PeBeside(dv) ==
    IF dv = NaN THEN NaN ELSE IF dv = Num(0) THEN Num(0) ELSE Num(1500 - dv.v)

AsOfRow(i, dv) == SmoothRow(i, dv, PeBeside(dv))

\* another quote for the same day
OtherQuote(dv) ==
    IF dv = NaN THEN Num(500)
    ELSE IF dv = Num(0) THEN Num(300)
    ELSE IF dv = Num(300) THEN Num(0)
    ELSE NaN

\* what the provider returns instead of `series` (oldest first) when the days
\* after day d are withdrawn, requoted, or followed by one more day
LaterVaried(series, d, how) ==
    IF how = "removed" THEN SubSeq(series, 1, d)
    ELSE IF how = "changed"
    THEN [i \in 1..Len(series) |->
             IF i <= d THEN series[i] ELSE AsOfRow(i, OtherQuote(series[i].dv_ttm))]
    ELSE Append(series, AsOfRow(Len(series) + 1, Num(300)))

Variations == {"removed", "changed", "added"}

\* a frame lists its rows oldest first or newest first
Listed(series, newestFirst) ==
    IF newestFirst THEN [i \in 1..Len(series) |-> series[Len(series) + 1 - i]]
    ELSE series

AsOfCall(fn, d, raw, varied, sent, sent_varied) ==
    [fn |-> fn, n |-> 2, d |-> d, raw |-> raw, varied |-> varied,
     sent |-> sent, sent_varied |-> sent_varied]

\* backfill_history.backfill_stock_history on an empty store, once per series
CallBackfillStockHistoryTwice ==
    /\ call = NoCall
    /\ \E n \in 1..MaxAsOf :
       \E dv \in [1..n -> SmoothValues], d \in 1..n, how \in Variations,
          newestFirst \in BOOLEAN :
       \E series \in {[i \in 1..n |-> AsOfRow(i, dv[i])]} :
       \E raw \in {Listed(series, newestFirst)},
          varied \in {Listed(LaterVaried(series, d, how), newestFirst)} :
          call' = AsOfCall("backfill_history.backfill_stock_history", d, raw, varied,
                      backfill_stock_history(NewConnection({}, {}), {}, {}, SymA,
                          Request(0, DataFrame(raw)), 0).sent,
                      backfill_stock_history(NewConnection({}, {}), {}, {}, SymA,
                          Request(0, DataFrame(varied)), 0).sent)
    /\ RankUnchanged

\* backfill_single_stock.backfill_single_stock on an empty store, once per series
CallBackfillSingleStockTwice ==
    /\ call = NoCall
    /\ \E n \in 1..MaxAsOf :
       \E dv \in [1..n -> SmoothValues], d \in 1..n, how \in Variations,
          newestFirst \in BOOLEAN :
       \E series \in {[i \in 1..n |-> AsOfRow(i, dv[i])]} :
       \E raw \in {Listed(series, newestFirst)},
          varied \in {Listed(LaterVaried(series, d, how), newestFirst)} :
          call' = AsOfCall("backfill_single_stock.backfill_single_stock", d, raw, varied,
                      backfill_single_stock(NewConnection({}, {}), {}, {}, SymA,
                          Request(0, DataFrame(raw)), 0).sent,
                      backfill_single_stock(NewConnection({}, {}), {}, {}, SymA,
                          Request(0, DataFrame(varied)), 0).sent)
    /\ RankUnchanged

NextAsOf ==
    \/ CallBackfillStockHistoryTwice
    \/ CallBackfillSingleStockTwice

SpecAsOf == InitRetry /\ [][NextAsOf]_vars

IsAsOfCall ==
    call.fn \in {"backfill_history.backfill_stock_history",
                 "backfill_single_stock.backfill_single_stock"}

\* the two fetched series agree on every row dated day d or earlier
AgreeUpTo(raw, varied, d) ==
    {r \in {raw[i] : i \in 1..Len(raw)} : r.trade_date <= RawDate(d)}
        = {r \in {varied[i] : i \in 1..Len(varied)} : r.trade_date <= RawDate(d)}

\* C22: when two fetched series agree on all rows with trade_date <= d, the
\* yield_percentile and the pe_percentile a backfill stores for every date up to
\* d are the same for both: rows dated after d, whether added, removed or
\* changed, never change them.
C22_NoLookaheadInPercentiles ==
    (IsAsOfCall /\ AgreeUpTo(call.raw, call.varied, call.d)) =>
        \A r1 \in call.sent, r2 \in call.sent_varied :
            (r1.trade_date = r2.trade_date
                /\ DateOrdinal(r1.trade_date) <= RawDate(call.d)) =>
                /\ r1.yield_percentile = r2.yield_percentile
                /\ r1.pe_percentile = r2.pe_percentile

\* two series that agree on the first day and differ on the second, where the
\* first day's percentiles are stored and the second day's differ
C22_Witness ==
    /\ IsAsOfCall
    /\ call.d = 1
    /\ Len(call.raw) = 2 /\ Len(call.varied) = 2
    /\ call.raw # call.varied
    /\ AgreeUpTo(call.raw, call.varied, 1)
    /\ \E r1 \in call.sent, r2 \in call.sent_varied :
          /\ r1.trade_date = FormatTradeDate(RawDate(1))
          /\ r2.trade_date = r1.trade_date
          /\ r1.yield_percentile # None
          /\ r1.yield_percentile = r2.yield_percentile
    /\ \E r1 \in call.sent, r2 \in call.sent_varied :
          /\ r1.trade_date = FormatTradeDate(RawDate(2))
          /\ r2.trade_date = r1.trade_date
          /\ r1.yield_percentile # r2.yield_percentile


-----------------------------------------------------------------------------
(* Specification SpecProcess: process_single_stock called once, on an      *)
(* empty daily store or on the one an earlier backfill left, with a quote   *)
(* that passes the yield guard, every answer to the history request, every *)
(* combination of the two growth columns of pro.fina_indicator and every    *)
(* kind of answer of pro.income.                                            *)

\* or_yoy / netprofit_yoy of the primary answer: missing, zero, a percentage
GrowthPercents == {NaN, Num(0), Num(1000)}

GrowthFinFrames ==
    {DataFrame(<<[FinRow("full") EXCEPT !.or_yoy = r, !.netprofit_yoy = n]>>) :
        r \in GrowthPercents, n \in GrowthPercents}

\* the quarter a year before the latest one in the answer of pro.income
YearAgoRows == {IncomeRow(1000000, 200000), IncomeRow(0, 200000),
                [total_revenue |-> Num(1000000), n_income |-> NaN],
                [total_revenue |-> Num(0), n_income |-> NaN]}

\* answers of pro.income: four quarters only, or five with the year-ago one
GrowthIncomeFrames ==
    {DataFrame(<<IncomeRow(1500000, 250000), IncomeRow(1400000, 240000),
                 IncomeRow(1300000, 230000), IncomeRow(1200000, 220000)>>)} \cup
    {DataFrame(<<IncomeRow(1500000, 250000), IncomeRow(1400000, 240000),
                 IncomeRow(1300000, 230000), IncomeRow(1200000, 220000), last>>) :
        last \in YearAgoRows}

GrowthIncomeAnswers == Answers(GrowthIncomeFrames, FollowUp)

\* process_single_stock(conn, SymA, ...); pro.income is asked only on the
\* branch of step 5 that calls fetch_growth_metrics
CallProcessSingleStock ==
    /\ call = NoCall
    /\ \E hist \in HistAnswers, fin \in Answers(GrowthFinFrames, {0}),
          cash \in CashAnswers, fault_quarterly \in BOOLEAN,
          dm0 \in {{}, PriorDaily} :
        LET primary == fetch_financial_indicators(fin, cash)
        IN \E income \in (IF NeedsGrowth(primary) THEN GrowthIncomeAnswers
                          ELSE {NotAsked}) :
           LET up == [NoUp EXCEPT
                        !.daily = Request(0, DataFrame(<<QuoteRow("good", MaxDates)>>)),
                        !.hist = hist, !.fin = fin, !.cash = cash, !.income = income,
                        !.fault_quarterly = fault_quarterly]
           IN \E res \in {process_single_stock(NewConnection(dm0, {}), dm0, {}, SymA,
                                               up, Today)} :
                call' = [fn |-> "process_single_stock", n |-> 1, up |-> up,
                         primary |-> primary,
                         secondary |-> fetch_growth_metrics(income),
                         dm0 |-> dm0, sent |-> res.sent,
                         raised |-> res.raised, dm |-> res.dm, qf |-> res.qf]
    /\ RankUnchanged

NextProcess == CallProcessSingleStock

SpecProcess == InitRetry /\ [][NextProcess]_vars

IsGrowthCall == call.fn = "process_single_stock"

GrowthFields == {"revenue_growth_yoy", "net_profit_growth_yoy"}

\* C23: in process_single_stock the income query of fetch_growth_metrics is
\* issued only when revenue_growth_yoy or net_profit_growth_yoy of the
\* primary financials is null; a non-null primary value is stored as it is;
\* a null primary value is stored as the secondary value when that one is
\* non-null and stays null otherwise.
C23_GrowthFallback ==
    IsGrowthCall =>
        /\ call.up.income.calls > 0 =>
              \E f \in GrowthFields : call.primary[f] = None
        /\ \A r \in call.qf, f \in GrowthFields :
              /\ call.primary[f] # None => r[f] = call.primary[f]
              /\ call.primary[f] = None =>
                    r[f] = (IF call.secondary # None /\ call.secondary[f] # None
                            THEN call.secondary[f] ELSE None)

\* the revenue growth came from pro.income while the profit growth of
\* fina_indicator was kept, and in the same row a growth of zero was kept
C23_Witness ==
    /\ IsGrowthCall
    /\ call.primary.revenue_growth_yoy = None
    /\ call.primary.net_profit_growth_yoy = Num(0)
    /\ call.secondary # None
    /\ call.secondary.net_profit_growth_yoy # None
    /\ \E r \in call.qf : /\ r.revenue_growth_yoy = call.secondary.revenue_growth_yoy
                           /\ r.revenue_growth_yoy # None
                           /\ r.net_profit_growth_yoy = Num(0)


-----------------------------------------------------------------------------
(* Claims on the runs of the updater and the backfill *)

\* the events of `trail` after its last request
RECURSIVE AfterLastRequest(_)
AfterLastRequest(trail) ==
    IF trail = <<>> \/ trail[Len(trail)].e = "request" THEN <<>>
    ELSE Append(AfterLastRequest(SubSeq(trail, 1, Len(trail) - 1)), trail[Len(trail)])

\* the events of `trail` before its first request
RECURSIVE BeforeFirstRequest(_)
BeforeFirstRequest(trail) ==
    IF trail = <<>> \/ trail[1].e = "request" THEN <<>>
    ELSE <<trail[1]>> \o BeforeFirstRequest(Tail(trail))

\* what the run did between the last request for the i-th symbol and the
\* first request for the next one
BetweenSymbols(i) ==
    AfterLastRequest(obs[stocks[i]].trail) \o BeforeFirstRequest(obs[stocks[i + 1]].trail)

\* C24: in a run of backfill_history.main or update_data.main over several
\* symbols, a sleep of REQUEST_DELAY lies between the last upstream request
\* for one symbol and the first request for the next, whether the first
\* symbol succeeded, was skipped or failed with an exception.
C24_SleepBetweenSymbols ==
    \A i \in 1..(pos - 1) :
        \E k \in 1..Len(BetweenSymbols(i)) : BetweenSymbols(i)[k] = Slept(REQUEST_DELAY)

\* the updater went on to a second symbol after an exception left
\* process_single_stock for the first
C24_Witness ==
    /\ script = "update_data"
    /\ pos = 2
    /\ obs[stocks[1]].raised
    /\ obs[stocks[2]].trail # <<>>
    /\ obs[stocks[2]].trail[1] = Requested("daily")

-----------------------------------------------------------------------------
(* Specification SpecUpdater: the runs of update_data.main alone, on a      *)
(* store that earlier runs left empty. The script is one sequential         *)
(* process whose requests return or raise, so a step that can be taken is   *)
(* taken: weak fairness of the next step.                                   *)
InitUpdater == Init /\ script = "update_data" /\ daily_metrics = {}

NextUpdater ==
    \/ UpdateMainStart
    \/ UpdateMainStep
    \/ MainFinish

SpecUpdater == InitUpdater /\ [][NextUpdater]_vars /\ WF_vars(NextUpdater)

Selected == {stocks[i] : i \in 1..Len(stocks)}

\* at the summary every selected symbol was processed, no other one, and each
\* was counted once
AccountedAtCompletion ==
    pc = "done" =>
        /\ success_count + fail_count = Len(stocks)
        /\ \A s \in Symbols : obs[s].ran <=> s \in Selected

\* a step that processes a symbol processes the next one of the list, which
\* was not processed before, and no other
OneCallInListOrder ==
    pos' # pos =>
        /\ pos' = pos + 1
        /\ ~obs[stocks[pos']].ran
        /\ obs'[stocks[pos']].ran
        /\ \A s \in Symbols \ {stocks[pos']} : obs'[s] = obs[s]
        /\ stocks' = stocks

\* C25: whatever list of symbols update_data.main selected and whichever
\* requests and statements fail, the run terminates, process_single_stock
\* was called exactly once per selected symbol in list order, and at the
\* end success_count + fail_count is the number of selected symbols.
C25_UpdaterTerminatesAndAccounts ==
    /\ <>(pc \in {"done", "exit"})
    /\ []AccountedAtCompletion
    /\ [][OneCallInListOrder]_vars

\* the whole watchlist was updated: one symbol succeeded, one failed
C25_Witness ==
    /\ script = "update_data"
    /\ pc = "done"
    /\ Len(stocks) = 2
    /\ success_count = 1
    /\ fail_count = 1
    /\ \E s \in Selected : obs[s].raised


\* C26: a symbol that update_data.main counted as failed has no write from
\* this run: no row sent for it during its processing was committed, also
\* when the failure happened in the quarterly step after save_daily_metrics.
C26_FailedSymbolWroteNothing ==
    script = "update_data" =>
        \A s \in Symbols :
            obs[s].counted = "fail" => ~(obs[s].committed /\ obs[s].sent # {})


\* On the calls of SpecProcess: the history request of the call failed on every
\* retry or came back empty
HistoryFailed ==
    ~call.up.hist.returned \/ call.up.hist.value.rows = <<>>

\* C27: when the quote passes the yield guard and the history fetch fails on
\* all retries or returns nothing, the row already stored for
\* (symbol, trade_date) keeps its non-null pe_percentile and yield_percentile.
C27_FailedHistoryKeepsPercentiles ==
    (IsGrowthCall /\ HistoryFailed) =>
        \A r0 \in call.dm0, w \in call.sent :
            (/\ DailyKey(r0) = DailyKey(w)
             /\ r0.pe_percentile # None
             /\ r0.yield_percentile # None) =>
                \E r \in call.dm : /\ DailyKey(r) = DailyKey(r0)
                                   /\ r.pe_percentile = r0.pe_percentile
                                   /\ r.yield_percentile = r0.yield_percentile


-----------------------------------------------------------------------------
(* Specification SpecRerun: the backfill of a symbol, or its single-day     *)
(* update, run twice on the same calendar day with the provider and the     *)
(* server behaving the same way both times. Each run has its own            *)
(* connection; what a run left uncommitted is gone when it closes.          *)

\* the two stores an earlier run may have left
PriorStores == {[dm |-> {}, qf |-> {}], [dm |-> PriorDaily, qf |-> PriorQuarterly]}

\* backfill_stock_history(conn, SymA, ...) twice
CallBackfillStockHistoryRerun ==
    /\ call = NoCall
    /\ \E st \in PriorStores, fr \in SeriesAnswers :
       \E fault_at \in 0..(IF fr.returned THEN Len(fr.value.rows) ELSE 0) :
       \E r1 \in {backfill_stock_history(NewConnection(st.dm, st.qf), st.dm, st.qf,
                                          SymA, fr, fault_at)} :
       \E r2 \in {backfill_stock_history(NewConnection(r1.dm, r1.qf), r1.dm, r1.qf,
                                          SymA, fr, fault_at)} :
          call' = [fn |-> "backfill_stock_history", n |-> 2, before |-> st,
                   fr |-> fr, fault_at |-> fault_at,
                   first |-> [dm |-> r1.dm, qf |-> r1.qf],
                   second |-> [dm |-> r2.dm, qf |-> r2.qf]]
    /\ RankUnchanged

\* process_single_stock(conn, SymA, ...) twice with the behaviour `up`
ProcessedTwice(st, up) ==
    \E r1 \in {process_single_stock(NewConnection(st.dm, st.qf), st.dm, st.qf, SymA,
                                    up, Today)} :
    \E r2 \in {process_single_stock(NewConnection(r1.dm, r1.qf), r1.dm, r1.qf, SymA,
                                    up, Today)} :
       call' = [fn |-> "process_single_stock", n |-> 2, before |-> st, up |-> up,
                first |-> [dm |-> r1.dm, qf |-> r1.qf],
                second |-> [dm |-> r2.dm, qf |-> r2.qf]]

\* as in UpdateMainStep, only what the call gets to ask is chosen
CallProcessSingleStockRerun ==
    /\ call = NoCall
    /\ \E st \in PriorStores, daily \in QuoteAnswers :
        LET daily_data == fetch_daily_basic(daily)
            up1 == [NoUp EXCEPT !.daily = daily]
        IN IF daily_data = None \/ YieldGuard(daily_data)
           THEN ProcessedTwice(st, up1)
           ELSE \E hist \in HistAnswers, fault_daily \in BOOLEAN :
                LET up2 == [up1 EXCEPT !.hist = hist, !.fault_daily = fault_daily]
                IN IF fault_daily
                   THEN ProcessedTwice(st, up2)
                   ELSE \E fin \in FinAnswers :
                        LET up3 == [up2 EXCEPT !.fin = fin]
                        IN IF fetch_financial_indicators(fin, NotAsked) = None
                           THEN ProcessedTwice(st, up3)
                           ELSE \E cash \in CashAnswers :
                                LET fetched == fetch_financial_indicators(fin, cash)
                                IN \E income \in (IF NeedsGrowth(fetched)
                                                  THEN IncomeAnswers
                                                  ELSE {NotAsked}) :
                                   \E fault_quarterly \in
                                        (IF QuarterlyIsSent(CompleteFinancials(fetched,
                                                fetch_growth_metrics(income), daily_data))
                                         THEN BOOLEAN ELSE {FALSE}) :
                                      ProcessedTwice(st, [up3 EXCEPT
                                          !.cash = cash, !.income = income,
                                          !.fault_quarterly = fault_quarterly])
    /\ RankUnchanged

NextRerun ==
    \/ CallBackfillStockHistoryRerun
    \/ CallProcessSingleStockRerun

SpecRerun == InitRetry /\ [][NextRerun]_vars

IsRerunCall == call.n = 2 /\ call.fn \in {"backfill_stock_history", "process_single_stock"}

\* C28: running the backfill for a symbol twice, or the single-day update
\* twice, with identical upstream responses on the same calendar day leaves
\* daily_metrics and quarterly_financials exactly as after the first run.
C28_RerunLeavesStoreAsFirstRun ==
    IsRerunCall => call.second = call.first

\* the update ran twice on the store an earlier backfill left, and its first
\* run changed both tables
C28_Witness ==
    /\ IsRerunCall
    /\ call.fn = "process_single_stock"
    /\ call.before.dm # {}
    /\ call.first.dm # call.before.dm
    /\ call.first.qf # call.before.qf
    /\ call.second = call.first


-----------------------------------------------------------------------------
(* Specification SpecYield: the rows the three writers of daily_metrics     *)
(* send. process_single_stock gets a quote whose yield and P/E are each     *)
(* missing, zero or a value; the two backfills get a series of up to        *)
(* MaxAsOf such days, listed oldest first or newest first.                  *)

YieldQuotes == {NaN, Num(0), Num(500)}
PeQuotes == {NaN, Num(0), Num(900)}

\* process_single_stock(conn, SymA, ...) on the empty store; the quarterly
\* request is left unanswered
CallProcessSingleStockOnQuote ==
    /\ call = NoCall
    /\ \E dv \in YieldQuotes, pe \in PeQuotes, fails \in FirstRequest :
        LET quote == [QuoteRow("good", MaxDates) EXCEPT !.dv_ttm = dv, !.pe_ttm = pe]
            up1 == [NoUp EXCEPT !.daily = Request(fails, DataFrame(<<quote>>))]
            daily_data == fetch_daily_basic(up1.daily)
        IN \E up \in (IF daily_data = None \/ YieldGuard(daily_data) THEN {up1}
                      ELSE {[up1 EXCEPT !.hist = hist,
                                        !.fin = Request(MAX_RETRIES, DataFrame(<<>>))] :
                               hist \in HistAnswers}) :
             call' = [fn |-> "process_single_stock", n |-> 1, raw |-> <<quote>>, up |-> up,
                      sent |-> process_single_stock(NewConnection({}, {}), {}, {}, SymA,
                                                    up, Today).sent]
    /\ RankUnchanged

\* backfill_history.backfill_stock_history(conn, SymA, ...) on the empty store
CallBackfillStockHistoryOnSeries ==
    /\ call = NoCall
    /\ \E n \in 1..MaxAsOf :
       \E dv \in [1..n -> YieldQuotes], pe \in [1..n -> PeQuotes],
          newestFirst \in BOOLEAN :
       \E series \in {[i \in 1..n |-> SmoothRow(i, dv[i], pe[i])]} :
          call' = [fn |-> "backfill_stock_history", n |-> 1, raw |-> series,
                   newestFirst |-> newestFirst,
                   sent |-> backfill_stock_history(NewConnection({}, {}), {}, {}, SymA,
                                Request(0, DataFrame(Listed(series, newestFirst))),
                                0).sent]
    /\ RankUnchanged

\* backfill_single_stock.backfill_single_stock(conn, SymA, ...) on the empty store
CallBackfillSingleStockOnSeries ==
    /\ call = NoCall
    /\ \E n \in 1..MaxAsOf :
       \E dv \in [1..n -> YieldQuotes], pe \in [1..n -> PeQuotes],
          newestFirst \in BOOLEAN :
       \E series \in {[i \in 1..n |-> SmoothRow(i, dv[i], pe[i])]} :
          call' = [fn |-> "backfill_single_stock", n |-> 1, raw |-> series,
                   newestFirst |-> newestFirst,
                   sent |-> backfill_single_stock(NewConnection({}, {}), {}, {}, SymA,
                                Request(0, DataFrame(Listed(series, newestFirst))),
                                0).sent]
    /\ RankUnchanged

NextYield ==
    \/ CallProcessSingleStockOnQuote
    \/ CallBackfillStockHistoryOnSeries
    \/ CallBackfillSingleStockOnSeries

SpecYield == InitRetry /\ [][NextYield]_vars

IsBackfillOnSeries == call.fn \in {"backfill_stock_history", "backfill_single_stock"}

\* the stored column of each tracked column of the provider
StoredColumn == [dv_ttm |-> "dividend_yield_ttm", pe_ttm |-> "pe_ttm"]

\* C29: every daily_metrics row process_single_stock writes has
\* dividend_yield_ttm > 0; every row the backfill scripts write has
\* dividend_yield_ttm and pe_ttm null or non-zero: the smoothed value, which
\* is null only on dates before the first valid raw value of the column.
C29_StoredYieldNeverZero ==
    /\ call.fn = "process_single_stock" =>
          \A r \in call.sent :
              r.dividend_yield_ttm.t = "num" /\ r.dividend_yield_ttm.v > 0
    /\ IsBackfillOnSeries =>
          \A d \in 1..Len(call.raw), col \in {"dv_ttm", "pe_ttm"} :
          \A r \in call.sent :
              r.trade_date = FormatTradeDate(call.raw[d].trade_date) =>
                  LET stored == r[StoredColumn[col]]
                      filled == FilledFromEarlier(call.raw, col, d)
                  IN /\ stored = None \/ (stored.t = "num" /\ stored.v # 0)
                     /\ stored = (IF filled = NaN THEN None ELSE filled)
                     /\ stored = None =>
                            \A j \in 1..d : ~RawValid(call.raw[j][col])

\* a backfill wrote a day whose raw yield and P/E were zero with the values
\* of the day before, after a first day that had neither
C29_Witness ==
    /\ IsBackfillOnSeries
    /\ Len(call.raw) = 3
    /\ call.raw[1].dv_ttm = NaN /\ call.raw[1].pe_ttm = Num(0)
    /\ call.raw[3].dv_ttm = Num(0) /\ call.raw[3].pe_ttm = Num(0)
    /\ \E r \in call.sent : /\ r.trade_date = FormatTradeDate(call.raw[1].trade_date)
                            /\ r.dividend_yield_ttm = None
                            /\ r.pe_ttm = None
    /\ \E r \in call.sent : /\ r.trade_date = FormatTradeDate(call.raw[3].trade_date)
                            /\ r.dividend_yield_ttm = Num(500)
                            /\ r.pe_ttm = Num(900)


-----------------------------------------------------------------------------
(* Specification SpecFloor: backfill_history.backfill_stock_history on a    *)
(* series of up to MaxAsOf trading days whose yield is missing, zero, a     *)
(* value, the limit 100 or beyond it, the P/E of the day alike around its   *)
(* limit 1000.                                                              *)

FloorYields == {NaN, Num(0), Num(300), Num(500), Num(YieldOutlier), Num(15000)}

\* the P/E quoted beside a yield
FloorPe(dv) ==
    IF dv = NaN THEN NaN
    ELSE IF dv = Num(0) THEN Num(0)
    ELSE IF dv = Num(300) THEN Num(1200)
    ELSE IF dv = Num(500) THEN Num(1000)
    ELSE IF dv = Num(YieldOutlier) THEN Num(PeOutlier)
    ELSE Num(150000)

\* backfill_stock_history(conn, SymA, ...) on the empty store; `raw` is the
\* series oldest first, so the row at sorted position i is raw[i + 1]
CallBackfillStockHistoryRanked ==
    /\ call = NoCall
    /\ \E n \in 1..MaxAsOf :
       \E dv \in [1..n -> FloorYields], newestFirst \in BOOLEAN :
       \E series \in {[i \in 1..n |-> SmoothRow(i, dv[i], FloorPe(dv[i]))]} :
          call' = [fn |-> "backfill_stock_history", n |-> 1, raw |-> series,
                   newestFirst |-> newestFirst,
                   sent |-> backfill_stock_history(NewConnection({}, {}), {}, {}, SymA,
                                Request(0, DataFrame(Listed(series, newestFirst))),
                                0).sent]
    /\ RankUnchanged

NextFloor == CallBackfillStockHistoryRanked

SpecFloor == InitRetry /\ [][NextFloor]_vars

IsRankedCall == call.fn = "backfill_stock_history"

FloorColumns ==
    {[col |-> "dv_ttm", pct |-> "yield_percentile", limit |-> YieldOutlier],
     [col |-> "pe_ttm", pct |-> "pe_percentile", limit |-> PeOutlier]}

\* the smoothed value of column c.col on day d lies strictly inside (0, limit)
InsideLimits(c, d) ==
    LET filled == FilledFromEarlier(call.raw, c.col, d)
    IN filled # NaN /\ filled.v > 0 /\ filled.v < c.limit

\* the rows sent for day d
SentFor(d) == {r \in call.sent : r.trade_date = FormatTradeDate(call.raw[d].trade_date)}

\* C30 as worded: in backfill_history every row whose smoothed yield lies
\* strictly inside (0, 100) is stored with a yield_percentile that is
\* strictly positive and at least 100/(i+1) at sorted position i; likewise
\* pe_percentile for a smoothed P/E inside (0, 1000).
C30_PercentileFloorAsWorded ==
    IsRankedCall =>
        \A d \in 1..Len(call.raw), c \in FloorColumns :
            InsideLimits(c, d) =>
                \A r \in SentFor(d) : /\ r[c.pct] # None
                                      /\ r[c.pct].v > 0
                                      /\ r[c.pct].v * d >= 10000

\* C30 amended: in backfill_history every row whose smoothed yield lies
\* strictly inside (0, 100) is stored with a yield_percentile that is
\* strictly positive and, being rounded to two decimals, at least
\* 100/(i+1) - 0.005 at sorted position i; likewise pe_percentile for a
\* smoothed P/E inside (0, 1000). A stored percentile of 0 is unreachable.
C30_PercentileFloor ==
    IsRankedCall =>
        \A d \in 1..Len(call.raw), c \in FloorColumns :
            InsideLimits(c, d) =>
                \A r \in SentFor(d) : /\ r[c.pct] # None
                                      /\ r[c.pct].v > 0
                                      /\ 2 * r[c.pct].v * d >= 20000 - d

\* the third day has the lowest yield of three and is stored with 33.33
C30_Witness ==
    /\ IsRankedCall
    /\ Len(call.raw) = 3
    /\ InsideLimits([col |-> "dv_ttm", pct |-> "yield_percentile",
                     limit |-> YieldOutlier], 3)
    /\ \E r \in SentFor(3) : r.yield_percentile = Num(3333)

=============================================================================
